---- MODULE Spec2Model ----
(***************************************************************************)
(* Model of the asynchronous processing subsystem of church-media-         *)
(* automation: the BullMQ work queue with its enqueue-time dedup, the      *)
(* processVideo worker and the pipeline it drives, the videos / episodes   *)
(* tables, the backfill scan with its cancellation, and the Redis pub/sub  *)
(* bridge that feeds the SSE streams.                                      *)
(*                                                                         *)
(* The calls that other callers, workers and timers can interleave with    *)
(* are modelled await by await; a run of the pipeline on a job the worker  *)
(* holds is also available as one step, for the specifications in which    *)
(* nothing looks inside it.                                                *)
(***************************************************************************)
EXTENDS Integers, Sequences, FiniteSets, TLC

(***************************************************************************)
(* Bounds of the model.                                                    *)
(***************************************************************************)
NumVideos == 2
NumWorkers == 1
MaxAutoIds == 2
MaxEvents == 4
MaxSigLen == 4
MaxTopicLen == 2
NumAgents == 2
MaxHours == 520

(***************************************************************************)
(* Program constants.                                                      *)
(***************************************************************************)
MaxAttempts == 5
BaseDelay == 10
(* websubConfig.leaseSeconds (864000 s), the 3600 s kept back when the     *)
(* expiry is stored, the sweep's 24 h lookahead and the cron's 12 h        *)
(* period, all in hours.                                                   *)
LeaseHours == 240
BufferHours == 1
RenewalWindowHours == 24
SweepPeriodHours == 12

Agents == {"a1"}
VideoIds == 1..NumVideos
Keys == Agents \X VideoIds
Workers == {<<"w", i>> : i \in 1..NumWorkers}
Notifiers == {<<"n", 1>>, <<"n", 2>>}
Callers == Notifiers \cup Workers
AutoIds == {<<"auto", i>> : i \in 1..MaxAutoIds}
JobIds == Keys \cup AutoIds
NoId == <<"", 0>>
BackfillIds == {1}
Cancellers == {<<"x", 1>>}
Clients == {<<"c", 1>>, <<"c", 2>>}
Viewers == {<<"c", 1>>}

(* The Redis channels: job:progress:{jobId} and agent:backfill:{agentId}.  *)
ProgressChannel(jobId) == jobId
BackfillChannel(agentId) == <<agentId, 0>>

(* The raw error texts a failing call can carry, and the generic messages  *)
(* they are mapped to before they are stored.                              *)
RawErrors == {"yt-dlp exited with code 1", "ECONNRESET"}

(* What the scan's per-video catch can see: upsertVideo's wrapped database *)
(* error, a Redis error, and BullMQ's refusal to remove a locked job.      *)
InsertError == "Failed to insert video: canceling statement due to statement timeout"
DuplicateError == "Failed to insert video: duplicate key value violates unique constraint"
LockedError == "Job could not be removed because it is locked by another worker"

GenericMessages ==
  {"Video unavailable", "Video is private", "Video blocked", "Download failed",
   "Audio processing failed", "Transcription failed", "Processing timeout",
   "Upload failed", "Processing failed"}

(* The outcome of the substring tests, in their order, for the texts above. *)
getGenericErrorMessage(raw) ==
  IF raw = "yt-dlp exited with code 1" THEN "Download failed"
  ELSE IF raw = InsertError THEN "Processing timeout"
  ELSE "Processing failed"

(* The progress value reported before each stage of the pipeline.          *)
StageProgress == <<5, 25, 65, 75, 85, 95, 100>>
NumStages == Len(StageProgress)

VARIABLES
  videos,      \* videos table: key -> sequence of rows [status, error]
  episodes,    \* episodes table: key of the video -> sequence of rows
  jobs,        \* the BullMQ queue "processVideo": job id -> job record
  nextAutoId,  \* BullMQ's id counter for jobs added without a jobId
  progLog,     \* per job id: what has been published on job:progress:{id}, and
               \* the temporary files the runs of the job have left on disk
  call,        \* per caller: the upsertVideo / enqueueProcessVideo call in progress
  worker,      \* per worker slot: the job it runs and where it is in handleJob
  backfill,    \* backfill_jobs table: id -> row, with the request that created it
  scan,        \* per worker slot: the locals of processBackfillJob
  cancel,      \* per cancel request: where it is in cancelJob
  client,      \* per SSE connection: where it is in streamJobProgress, its buffer
  websub       \* the clock, the agents table, the hub's leases and the renewal sweep

vars == <<videos, episodes, jobs, nextAutoId, progLog, call, worker,
          backfill, scan, cancel, client, websub>>

(* What the subscription management leaves alone.                          *)
queueVars == <<videos, episodes, jobs, nextAutoId, progLog, call, worker,
               backfill, scan, cancel, client>>

bfVars == <<backfill, scan, cancel>>

NoJob ==
  [name |-> "none", state |-> "none", agentId |-> "", videoId |-> 0, bfId |-> 0,
   attemptsMade |-> 0, locked |-> FALSE, progress |-> 0, source |-> "none", delay |-> 0]

NoLog ==
  [last |-> 0, mono |-> TRUE, completedOnce |-> FALSE, temp |-> {}, cleanupErr |-> FALSE]

(* A notification POST: its raw body, its X-Hub-Signature header and what  *)
(* NODE_ENV is.  Texts are sequences of tokens; Absent is the header that  *)
(* was not sent (undefined).                                               *)
Absent == <<"undefined">>
NoNote == [body |-> "none", sig |-> Absent, production |-> FALSE]

(* The response of the webhook's GET: its status and its body.             *)
NoResponse == [status |-> 0, body |-> <<>>]

(* note is the request a handler of the webhook works on; acked, that the  *)
(* 200 of a notification was sent; res, the answer to a verification.      *)
IdleCall ==
  [pc |-> "idle", key |-> NoId, st |-> "none", result |-> "none", row |-> "none",
   err |-> "none", note |-> NoNote, acked |-> FALSE, res |-> NoResponse]

IdleWorker == [pc |-> "idle", job |-> NoId, stage |-> 0, err |-> "none"]

(* A backfill_jobs row.  req is the POST /agents/:id/backfill request that *)
(* created it; cancelled and enqAfterCancel record that cancelJob wrote    *)
(* its status while the scan was running, and that the scan added a job    *)
(* after that; reportedFailed is the failedVideos list of the last event   *)
(* the scan broadcast for the job.                                         *)
NoBackfill ==
  [status |-> "none", error |-> "none", agentId |-> "", total |-> 0, processed |-> 0,
   enqueued |-> 0, req |-> "none", cancelled |-> FALSE, enqAfterCancel |-> FALSE,
   reportedFailed |-> <<>>]

(* The locals of processBackfillJob: the listing is videos 1..n, idx the   *)
(* video in hand; attempted and threw record which videos the loop took up *)
(* and for which of them the loop body threw.                              *)
IdleScan ==
  [pc |-> "idle", bf |-> 0, n |-> 0, idx |-> 0, processedCount |-> 0, enqueuedCount |-> 0,
   failedVideos |-> <<>>, activeVideoIds |-> <<>>, attempted |-> {}, threw |-> {},
   err |-> "none"]

IdleCancel == [pc |-> "idle", bf |-> 0, agentId |-> "", targets |-> {}, refused |-> "none"]

(* An SSE connection.  buffer is the queue of events.on(); nSent, nRecv,   *)
(* inOrder, missed and dup record what was published to it and what it     *)
(* wrote to the response; closed: the consumer has gone away.              *)
IdleClient ==
  [pc |-> "idle", kind |-> "none", ch |-> NoId, snap |-> 0, snapPending |-> FALSE,
   missed |-> FALSE, dup |-> FALSE, buffer |-> <<>>, nSent |-> 0, nRecv |-> 0,
   inOrder |-> TRUE, done |-> FALSE, closed |-> FALSE]

(***************************************************************************)
(* WebSub subscriptions.  Time is counted in hours.  A row of the agents   *)
(* table keeps status, websub_expires_at and websub_status; the hub keeps, *)
(* per agent, the hour its lease ends (firstEnd remembers the end of the   *)
(* lease granted when the agent was created).  rejected records the agents *)
(* whose latest subscribe or unsubscribe request the hub answered non-2xx. *)
(***************************************************************************)
AgentIds == 1..NumAgents
NoTime == -1
NoAgent == [status |-> "none", websub_expires_at |-> NoTime, websub_status |-> "null"]
NoLease == [leaseEnd |-> NoTime, firstEnd |-> NoTime]
IdleSweep ==
  [pc |-> "idle", list |-> [i \in AgentIds |-> NoAgent], idx |-> 0, startedAt |-> NoTime,
   attempted |-> {}, renewed |-> {}, failed |-> {}]
NoWebsub ==
  [now |-> 0, agents |-> [i \in AgentIds |-> NoAgent], hub |-> [i \in AgentIds |-> NoLease],
   sweep |-> IdleSweep, rejected |-> {}]

(* The agents table once the agent "a1" has been created and subscribed.   *)
OneAgent ==
  [NoWebsub EXCEPT
     !.agents[1] = [status |-> "active", websub_expires_at |-> LeaseHours - BufferHours,
                    websub_status |-> "subscribed"],
     !.hub[1] = [leaseEnd |-> LeaseHours, firstEnd |-> LeaseHours]]

(* findById of the agent repository: the row, or none.                     *)
findAgentById(agentId) ==
  IF agentId = "a1" THEN websub.agents[1]
  ELSE IF agentId = "a2" THEN websub.agents[2]
  ELSE NoAgent

(* response.ok of the latest request to the hub for agent i.               *)
HubAnswered(rejected, i, ok) == IF ok THEN rejected \ {i} ELSE rejected \cup {i}

(* The hub's record after an accepted unsubscribe.                         *)
Released(lease) == [lease EXCEPT !.leaseEnd = NoTime]

(* new Date(Date.now() + (websubConfig.leaseSeconds - 3600) * 1000)        *)
ExpiresAt(now) == now + (LeaseHours - BufferHours)

(* The hub's answer to an accepted subscribe: the lease runs from now.     *)
Granted(lease, now) ==
  [leaseEnd |-> now + LeaseHours,
   firstEnd |-> IF lease.firstEnd = NoTime THEN now + LeaseHours ELSE lease.firstEnd]

Init ==
  /\ videos = [k \in Keys |-> <<>>]
  /\ episodes = [k \in Keys |-> <<>>]
  /\ jobs = [id \in JobIds |-> NoJob]
  /\ nextAutoId = 1
  /\ progLog = [id \in JobIds |-> NoLog]
  /\ call = [c \in Callers |-> IdleCall]
  /\ worker = [w \in Workers |-> IdleWorker]
  /\ backfill = [j \in BackfillIds |-> NoBackfill]
  /\ scan = [w \in Workers |-> IdleScan]
  /\ cancel = [x \in Cancellers |-> IdleCancel]
  /\ client = [s \in Clients |-> IdleClient]
  /\ websub = OneAgent

(***************************************************************************)
(* Redis pub/sub.  PUBLISH hands the message to the connections that are   *)
(* subscribed to the channel at that moment and to nobody else; the        *)
(* listener of events.on() queues it until the for-await loop takes it.    *)
(***************************************************************************)
BufferAppend_DropWhenBusy(buf, ev) == IF buf = <<>> THEN <<ev>> ELSE buf

(* events.on(): every "message" event is pushed onto an unbounded queue.   *)
BufferAppend(buf, ev) == Append(buf, ev)

(* A connection once value is published on its channel.  Subscribed: the   *)
(* message is queued.  Snapshot written but not yet subscribed: nobody     *)
(* gets it; it is missed unless it is the update the snapshot was read     *)
(* from.                                                                   *)
ReceiveUpdate(cl, value, status) ==
  IF cl.pc = "listening"
  THEN [cl EXCEPT !.buffer = BufferAppend(@, [value |-> value, status |-> status,
                                              n |-> cl.nSent + 1,
                                              dup |-> cl.snapPending]),
                  !.nSent = @ + 1,
                  !.snapPending = FALSE]
  ELSE IF cl.pc = "subscribe"
  THEN [cl EXCEPT !.missed = @ \/ ~cl.snapPending, !.snapPending = FALSE]
  ELSE cl

(* The status text of the pipeline's updates is the label of the stage.    *)
StageLabel == "Processing..."
Receive(cl, value) == ReceiveUpdate(cl, value, StageLabel)

RECURSIVE ReceiveAll(_, _)
ReceiveAll(cl, values) ==
  IF values = <<>> THEN cl ELSE ReceiveAll(Receive(cl, Head(values)), Tail(values))

(* redis.publish(channel, ...) of the values in order.                     *)
Published(ch, values) ==
  [s \in Clients |-> IF client[s].ch = ch THEN ReceiveAll(client[s], values) ELSE client[s]]

(* The model stops publishing to a connection that has been sent MaxEvents *)
(* messages.                                                               *)
RoomFor(ch, k) ==
  \A s \in Clients :
    (client[s].ch = ch /\ client[s].pc = "listening") => client[s].nSent + k <= MaxEvents

(***************************************************************************)
(* videoRepository.upsertVideo: find the row, return it untouched when it  *)
(* exists, insert a "discovered" row otherwise.  The two database calls    *)
(* are two steps.  Either call can fail with a database error.             *)
(***************************************************************************)
NewVideoRow == [status |-> "discovered", error |-> "none"]

UpsertExisting_Reset(row) == [row EXCEPT !.status = "discovered"]

(* What upsertVideo does to a row that already exists: nothing.            *)
UpsertExisting(row) == row

(* UNIQUE (agent_id, youtube_video_id) of the videos table.                *)
UniqueVideo(rows) == rows = <<>>

(* Where a caller goes on once upsertVideo has returned video (ok) or     *)
(* thrown: processYouTubeNotification enqueues whatever the status is and  *)
(* swallows the error; the backfill scan looks at the result itself.       *)
AfterUpsert(c, ok, status, err) ==
  IF c \in Notifiers
  THEN IF ok THEN [call[c] EXCEPT !.pc = "getJob", !.row = status] ELSE IdleCall
  ELSE [call[c] EXCEPT !.pc = "upRet", !.result = IF ok THEN "ok" ELSE "throw",
                       !.row = status, !.err = err]

UpsertFind(c) ==
  /\ call[c].pc = "upFind"
  /\ LET k == call[c].key
         rows == videos[k]
     IN  \/ /\ rows # <<>>
            /\ videos' = [videos EXCEPT ![k] = <<UpsertExisting(rows[1])>> \o Tail(rows)]
            /\ call' = [call EXCEPT ![c] = AfterUpsert(c, TRUE, UpsertExisting(rows[1]).status, "none")]
         \/ /\ rows = <<>>
            /\ call' = [call EXCEPT ![c].pc = "upInsert"]
            /\ UNCHANGED videos
  /\ UNCHANGED <<episodes, jobs, nextAutoId, progLog, worker, bfVars, client, websub>>

UpsertInsert(c) ==
  /\ call[c].pc = "upInsert"
  /\ LET k == call[c].key
     IN  IF UniqueVideo(videos[k])
         THEN /\ videos' = [videos EXCEPT ![k] = Append(@, NewVideoRow)]
              /\ call' = [call EXCEPT ![c] = AfterUpsert(c, TRUE, "discovered", "none")]
         ELSE /\ call' = [call EXCEPT ![c] = AfterUpsert(c, FALSE, "none", DuplicateError)]
              /\ UNCHANGED videos
  /\ UNCHANGED <<episodes, jobs, nextAutoId, progLog, worker, bfVars, client, websub>>

(* A database error in either call of upsertVideo.                         *)
UpsertError(c) ==
  /\ call[c].pc \in {"upFind", "upInsert"}
  /\ call' = [call EXCEPT ![c] = AfterUpsert(c, FALSE, "none", InsertError)]
  /\ UNCHANGED <<videos, episodes, jobs, nextAutoId, progLog, worker, bfVars, client, websub>>

(***************************************************************************)
(* enqueueProcessVideo.  getJob, getState, remove and add are its four     *)
(* awaits.  BullMQ itself: getState of a job that is gone is "unknown";    *)
(* remove of a job whose lock is held throws; add with an id that exists   *)
(* adds nothing.                                                           *)
(***************************************************************************)
JobIdOf(agentId, videoId) == <<agentId, videoId>>

GetState(id) == IF jobs[id].state = "none" THEN "unknown" ELSE jobs[id].state

DedupRejects_WaitingOnly(st) == st = "waiting"

DedupRejects_AlsoCompleted(st) == st \in {"waiting", "delayed", "completed"}

(* state === "waiting" || state === "delayed": don't duplicate.            *)
DedupRejects(st) == st \in {"waiting", "delayed"}

(* The states in which the existing job is removed before the add.         *)
RemovesExisting(st) == st \in {"active", "failed", "unknown"}

AddJobId_NoOption(jobId, fresh) == fresh

(* The id the job is added under: the jobId option of queues.add.          *)
AddJobId(jobId, fresh) == jobId

NewVideoJob(k) ==
  [NoJob EXCEPT !.name = "process_video", !.state = "waiting",
                !.agentId = k[1], !.videoId = k[2]]

FreshId == <<"auto", nextAutoId>>

(* The BackfillJob whose scan makes the call, 0 for a notification.  The   *)
(* job's data has no such field: bfId of a process_video job only records  *)
(* who added it.                                                           *)
EnqueuedBy(c) == IF c \in Workers THEN scan[c].bf ELSE 0

(* The backfill_jobs table once caller c has added a job: when c is a scan *)
(* whose BackfillJob was cancelled, the row remembers it.                  *)
AddedByScan(c) ==
  IF c \in Workers /\ scan[c].bf \in BackfillIds /\ backfill[scan[c].bf].cancelled
  THEN [backfill EXCEPT ![scan[c].bf].enqAfterCancel = TRUE]
  ELSE backfill

EnqGetJob(c) ==
  /\ call[c].pc = "getJob"
  /\ LET id == JobIdOf(call[c].key[1], call[c].key[2])
     IN  call' = [call EXCEPT ![c].pc = IF jobs[id].state = "none" THEN "add" ELSE "getState",
                              ![c].st = "none"]
  /\ UNCHANGED <<videos, episodes, jobs, nextAutoId, progLog, worker, bfVars, client, websub>>

EnqGetState(c) ==
  /\ call[c].pc = "getState"
  /\ LET id == JobIdOf(call[c].key[1], call[c].key[2])
         st == GetState(id)
     IN  call' = [call EXCEPT ![c].st = st,
                              ![c].pc = IF DedupRejects(st) THEN "enqRet"
                                        ELSE IF RemovesExisting(st) THEN "remove"
                                        ELSE "add",
                              ![c].result = IF DedupRejects(st) THEN "false" ELSE @]
  /\ UNCHANGED <<videos, episodes, jobs, nextAutoId, progLog, worker, bfVars, client, websub>>

EnqRemove_IgnoresLock(c) ==
  /\ call[c].pc = "remove"
  /\ jobs' = [jobs EXCEPT ![JobIdOf(call[c].key[1], call[c].key[2])] = NoJob]
  /\ call' = [call EXCEPT ![c].pc = "add"]
  /\ UNCHANGED <<videos, episodes, nextAutoId, progLog, worker, bfVars, client, websub>>

EnqRemove(c) ==
  /\ call[c].pc = "remove"
  /\ LET id == JobIdOf(call[c].key[1], call[c].key[2])
     IN  IF jobs[id].locked
         THEN /\ call' = [call EXCEPT ![c].pc = "enqRet", ![c].result = "throw",
                                       ![c].err = LockedError]
              /\ UNCHANGED jobs
         ELSE /\ jobs' = [jobs EXCEPT ![id] = NoJob]
              /\ call' = [call EXCEPT ![c].pc = "add"]
  /\ UNCHANGED <<videos, episodes, nextAutoId, progLog, worker, bfVars, client, websub>>

EnqAdd(c) ==
  /\ call[c].pc = "add"
  /\ LET k == call[c].key
         id == AddJobId(JobIdOf(k[1], k[2]), FreshId)
     IN  /\ id \in JobIds
         /\ IF jobs[id].state = "none"
            THEN /\ jobs' = [jobs EXCEPT ![id] = [NewVideoJob(k) EXCEPT !.bfId = EnqueuedBy(c)]]
                 /\ progLog' = [progLog EXCEPT ![id].last = 0, ![id].mono = TRUE]
                 /\ backfill' = AddedByScan(c)
            ELSE UNCHANGED <<jobs, progLog, backfill>>
         /\ nextAutoId' = IF id = FreshId THEN nextAutoId + 1 ELSE nextAutoId
  /\ call' = [call EXCEPT ![c].pc = "enqRet", ![c].result = "true"]
  /\ UNCHANGED <<videos, episodes, worker, scan, cancel, client, websub>>

(* A Redis error in any of the four calls of enqueueProcessVideo.          *)
EnqError(c) ==
  /\ call[c].pc \in {"getJob", "getState", "remove", "add"}
  /\ call' = [call EXCEPT ![c].pc = "enqRet", ![c].result = "throw", ![c].err = "ECONNRESET"]
  /\ UNCHANGED <<videos, episodes, jobs, nextAutoId, progLog, worker, bfVars, client, websub>>

(***************************************************************************)
(* videoService.processYouTubeNotification, from the agent lookup on:      *)
(* upsert the video, enqueue it whatever its status, and swallow every     *)
(* error.                                                                  *)
(***************************************************************************)
NotifyStart(n, k) ==
  /\ call[n].pc = "idle"
  /\ call' = [call EXCEPT ![n] = [IdleCall EXCEPT !.pc = "upFind", !.key = k,
                                                  !.acked = TRUE]]
  /\ UNCHANGED <<videos, episodes, jobs, nextAutoId, progLog, worker, bfVars, client, websub>>

NotifyEnqueued(n) ==
  /\ call[n].pc = "enqRet"
  /\ call' = [call EXCEPT ![n] = IdleCall]
  /\ UNCHANGED <<videos, episodes, jobs, nextAutoId, progLog, worker, bfVars, client, websub>>

(***************************************************************************)
(* The webhook: websubController.handleNotification acknowledges the POST  *)
(* and schedules processYouTubeNotification, which verifies the signature, *)
(* parses the feed, looks up the agent of the channel and goes on to the   *)
(* upsert and the enqueue.                                                 *)
(***************************************************************************)
(* The bodies: the Atom entry of video 1 of the channel of agent a1, and a *)
(* feed with no entry or of a channel no active agent has.                 *)
Bodies == {"video", "other"}

(* Lower-case hex of the HMAC-SHA1 of the body under websubConfig.secret.  *)
Hmac(body) == IF body = "video" THEN <<"d1">> ELSE <<"d2">>

SigTokens == {"sha1", "=", "d1", "d2"}

(* The texts of at most MaxSigLen tokens.                                  *)
SigTexts == UNION {[1..n -> SigTokens] : n \in 0..MaxSigLen}

Signatures == SigTexts \cup {Absent}

(* String.prototype.split("="): the pieces between the separators.         *)
RECURSIVE Split(_)
Split(text) ==
  IF text = <<>> THEN << <<>> >>
  ELSE IF Head(text) = "=" THEN << <<>> >> \o Split(Tail(text))
  ELSE LET rest == Split(Tail(text))
       IN  << <<Head(text)>> \o rest[1] >> \o Tail(rest)

(* !signature holds for undefined and for the empty text; the destructuring *)
(* takes the first two pieces, and a missing second piece is undefined.    *)
verifySignature(body, signature, production) ==
  IF signature = Absent \/ signature = <<>> THEN ~production
  ELSE LET pieces == Split(signature)
       IN  IF pieces[1] # <<"sha1">> THEN FALSE
           ELSE Len(pieces) >= 2 /\ pieces[2] = Hmac(body)

(* The key of the entry of the body, when it has one and findByChannelId   *)
(* finds its agent.                                                        *)
HasAgent(body) == body = "video"
EntryKey(body) == <<"a1", 1>>

handleNotification_AckLast(n, body, sig, production) ==
  /\ call[n].pc = "idle"
  /\ call' = [call EXCEPT ![n] =
                 [IdleCall EXCEPT !.pc = "scheduled",
                                  !.note = [body |-> body, sig |-> sig,
                                            production |-> production]]]
  /\ UNCHANGED <<videos, episodes, jobs, nextAutoId, progLog, worker, bfVars, client, websub>>

(* res.status(200).send(), then setImmediate(processYouTubeNotification).  *)
handleNotification(n, body, sig, production) ==
  /\ call[n].pc = "idle"
  /\ call' = [call EXCEPT ![n] =
                 [IdleCall EXCEPT !.pc = "scheduled", !.acked = TRUE,
                                  !.note = [body |-> body, sig |-> sig,
                                            production |-> production]]]
  /\ UNCHANGED <<videos, episodes, jobs, nextAutoId, progLog, worker, bfVars, client, websub>>

(* processYouTubeNotification up to upsertVideo: every early return and    *)
(* every error ends the handler.  found: findByChannelId returned the      *)
(* agent rather than failing.                                              *)
processYouTubeNotification(n, found) ==
  /\ call[n].pc = "scheduled"
  /\ LET note == call[n].note
     IN  call' = [call EXCEPT ![n] =
                    IF /\ verifySignature(note.body, note.sig, note.production)
                       /\ HasAgent(note.body)
                       /\ found
                    THEN [@ EXCEPT !.pc = "upFind", !.key = EntryKey(note.body)]
                    ELSE IdleCall]
  /\ UNCHANGED <<videos, episodes, jobs, nextAutoId, progLog, worker, bfVars, client, websub>>

(***************************************************************************)
(* websubController.verifyIntent: the hub's GET with hub.mode, hub.topic   *)
(* and hub.challenge.  A query parameter is a text, is absent, or, given   *)
(* more than once, is an array.                                            *)
(***************************************************************************)
Repeated == <<"[array]">>

Modes == {"subscribe", "unsubscribe", "publish", "undefined"}

FeedPrefix == "https://www.youtube.com/xml/feeds/videos.xml?channel_id="
Channels == {"UC1"}

(* websub.buildTopic: the feed URL of a channel.                           *)
buildTopic(channelId) == <<FeedPrefix, channelId>>

TopicTokens == {FeedPrefix, "youtube.com", "https://example.org/?"} \cup Channels

Topics ==
  UNION {[1..n -> TopicTokens] : n \in 0..MaxTopicLen} \cup {Absent, Repeated}

Challenges == {<<"c1">>, <<"c1", "c2">>, <<>>, Absent, Repeated}

(* typeof value === "string"                                               *)
IsString(value) == value \notin {Absent, Repeated}

(* topic.includes("youtube.com")                                           *)
IncludesYoutube(topic) ==
  \E i \in 1..Len(topic) : topic[i] \in {FeedPrefix, "youtube.com"}

IntentResponse(mode, topic, challenge) ==
  IF mode # "subscribe" /\ mode # "unsubscribe"
  THEN [status |-> 400, body |-> <<"Invalid hub.mode">>]
  ELSE IF ~IsString(topic) \/ topic = <<>> \/ ~IncludesYoutube(topic)
  THEN [status |-> 400, body |-> <<"Invalid hub.topic">>]
  ELSE IF ~IsString(challenge) \/ challenge = <<>>
  THEN [status |-> 400, body |-> <<"Missing hub.challenge">>]
  ELSE [status |-> 200, body |-> challenge]

verifyIntent(n, mode, topic, challenge) ==
  /\ call[n].pc = "idle"
  /\ call' = [call EXCEPT ![n] =
                 [IdleCall EXCEPT !.pc = "answered",
                                  !.note = [mode |-> mode, topic |-> topic,
                                            challenge |-> challenge],
                                  !.res = IntentResponse(mode, topic, challenge)]]
  /\ UNCHANGED <<videos, episodes, jobs, nextAutoId, progLog, worker, bfVars, client, websub>>

(* The response has been sent and the request is over.                     *)
IntentAnswered(n) ==
  /\ call[n].pc = "answered"
  /\ call' = [call EXCEPT ![n] = IdleCall]
  /\ UNCHANGED <<videos, episodes, jobs, nextAutoId, progLog, worker, bfVars, client, websub>>

(***************************************************************************)
(* The worker (processVideo.worker.ts).  A worker slot takes a waiting job *)
(* and holds its lock while handleJob runs.                                *)
(***************************************************************************)
WorkerTake(w, id) ==
  /\ worker[w].pc = "idle"
  /\ jobs[id].state \in {"waiting", "prioritized"}
  /\ jobs' = [jobs EXCEPT ![id].state = "active", ![id].locked = TRUE]
  /\ worker' = [worker EXCEPT ![w] = [IdleWorker EXCEPT
                    !.pc = IF jobs[id].name = "backfill-scan" THEN "scan" ELSE "video",
                    !.job = id]]
  /\ scan' = [scan EXCEPT ![w] = IF jobs[id].name = "backfill-scan"
                                  THEN [IdleScan EXCEPT !.pc = "find", !.bf = jobs[id].bfId]
                                  ELSE IdleScan]
  /\ UNCHANGED <<videos, episodes, nextAutoId, progLog, call, backfill, cancel, client, websub>>

JobKey(id) == <<jobs[id].agentId, jobs[id].videoId>>

(***************************************************************************)
(* processVideoOrchestrator as a function of where it fails.  Before each  *)
(* stage it reports StageProgress[stage]; the stages are download, AI      *)
(* pipeline with the boundary check, extraction, assembly, upload, episode *)
(* record, done.  failAt = 0: nothing throws; 1..6: that stage throws;     *)
(* 7: createSegmentation throws, after the episode was inserted.           *)
(***************************************************************************)
EpisodeStage == 6
FailPoints == 0..NumStages

UniqueEpisode_Off(rows) == TRUE

(* UNIQUE (agent_id, video_id) of the episodes table.                      *)
UniqueEpisode(rows) == rows = <<>>

(* The temporary files of a run and the stage whose work writes them: the  *)
(* downloaded audio, the extracted sermon segment, and the intro / outro   *)
(* downloads with the assembled episode.                                   *)
TempFiles == {"audio", "segment", "assembled"}

WrittenAt(file) == IF file = "audio" THEN 1 ELSE IF file = "segment" THEN 3 ELSE 4

WrittenBy(stage) == {f \in TempFiles : WrittenAt(f) = stage}

(* The files on disk once the work of stages 1..n is done.                 *)
WrittenUpTo(n) == UNION {WrittenBy(i) : i \in 1..n}

(* Step 9 of the orchestrator, the unlink loop and the rm of the temp dir: *)
(* it is reached only by a run in which nothing threw, and an unlink that  *)
(* fails leaves its file.                                                  *)
Cleanup(temp, reached, unlinkFails) == IF reached /\ ~unlinkFails THEN {} ELSE temp

(* The last stage whose progress the run reports.                          *)
LastReported(failAt, rows) ==
  IF failAt = 0 THEN (IF UniqueEpisode(rows) THEN NumStages ELSE EpisodeStage)
  ELSE IF failAt > EpisodeStage THEN EpisodeStage
  ELSE failAt

(* createEpisode is reached and the insert goes through.                   *)
InsertsEpisode(failAt, rows) == failAt \in {0, NumStages} /\ UniqueEpisode(rows)

RunSucceeds(failAt, rows) == failAt = 0 /\ UniqueEpisode(rows)

(* The record of a channel after the values of stages 1..last were         *)
(* published in order on it.                                               *)
PublishedUpTo(log, last) ==
  IF last = 0 THEN log
  ELSE [log EXCEPT !.last = StageProgress[last],
                   !.mono = /\ log.mono
                            /\ StageProgress[1] >= log.last
                            /\ \A i \in 1..(last - 1) : StageProgress[i + 1] >= StageProgress[i]]

(* attempts: 5 with backoff: a failed attempt is delayed and retried until *)
(* the attempts are used up.                                               *)
(* episodes.published BOOLEAN NOT NULL DEFAULT true.                       *)
PublishedDefault == TRUE

(* createEpisode of the repository: the insert names every column of its   *)
(* input but published, which the database fills in; asked keeps what the  *)
(* orchestrator passed (aiResult.decision.should_autopublish).             *)
createEpisode(input) == [published |-> PublishedDefault, asked |-> input.published]

RetryState_Forever(made) == "delayed"
RetryState(made) == IF made < MaxAttempts THEN "delayed" ELSE "failed"

(* backoff: {type: "exponential", delay: 10_000}: the seconds a job waits  *)
(* after its made-th failed attempt, 2^(made - 1) times the base delay.    *)
BackoffDelay(made) == BaseDelay * 2 ^ (made - 1)
RetryDelay(job, made) == IF RetryState(made) = "delayed" THEN BackoffDelay(made) ELSE job.delay

(* handleJob, video branch, for a job the worker holds: find the video,    *)
(* run the orchestrator; on an error mark the video failed with the        *)
(* generic message and rethrow, which hands the job to BullMQ's retry.     *)
HandleVideoJob(w, failAt, raw, publish, unlinkFails) ==
  /\ worker[w].pc = "video"
  /\ LET id == worker[w].job
         k == JobKey(id)
         found == videos[k] # <<>>
         rows == episodes[k]
         last == IF found THEN LastReported(failAt, rows) ELSE 0
         ok == found /\ RunSucceeds(failAt, rows)
         err == IF ~found THEN "Video not found"
                ELSE IF failAt = 0 THEN "Failed to create episode"
                ELSE raw
         made == jobs[id].attemptsMade + 1
     IN  /\ RoomFor(ProgressChannel(id), last)
         /\ client' = Published(ProgressChannel(id), SubSeq(StageProgress, 1, last))
         /\ episodes' = IF found /\ InsertsEpisode(failAt, rows)
                        THEN [episodes EXCEPT ![k] = Append(@, createEpisode([published |-> publish]))]
                        ELSE episodes
         /\ progLog' = [progLog EXCEPT ![id] =
                          [PublishedUpTo(@, last) EXCEPT
                             !.completedOnce = @ \/ ok,
                             !.temp = Cleanup(@ \cup WrittenUpTo(IF ok THEN last ELSE last - 1),
                                              ok, unlinkFails),
                             !.cleanupErr = @ \/ (ok /\ unlinkFails)]]
         /\ videos' = IF ok \/ ~found THEN videos
                      ELSE [videos EXCEPT ![k] =
                              <<[status |-> "failed", error |-> getGenericErrorMessage(err)]>>
                              \o Tail(@)]
         /\ jobs' = [jobs EXCEPT ![id].progress = IF last = 0 THEN @ ELSE StageProgress[last],
                                 ![id].locked = FALSE,
                                 ![id].attemptsMade = IF ok THEN @ ELSE made,
                                 ![id].delay = IF ok THEN @ ELSE RetryDelay(jobs[id], made),
                                 ![id].state = IF ok THEN "completed" ELSE RetryState(made)]
  /\ worker' = [worker EXCEPT ![w] = IdleWorker]
  /\ UNCHANGED <<nextAutoId, call, bfVars, websub>>

(***************************************************************************)
(* handleJob, video branch, await by await.  The updateProgress callback   *)
(* first stores the value on the job (job.updateProgress) and then         *)
(* publishes it (publishProgress); the stage's own work follows.           *)
(***************************************************************************)
AttemptFails_RestartsPipeline(w, err) ==
  /\ worker' = [worker EXCEPT ![w].pc = "store", ![w].stage = 1]
  /\ UNCHANGED <<videos, jobs>>

(* The catch of handleJob: mark the video failed, rethrow to BullMQ.       *)
AttemptFails(w, err) ==
  LET id == worker[w].job
      k == JobKey(id)
      made == jobs[id].attemptsMade + 1
  IN  /\ videos' = IF videos[k] = <<>> THEN videos
                   ELSE [videos EXCEPT ![k] =
                           <<[status |-> "failed", error |-> getGenericErrorMessage(err)]>>
                           \o Tail(@)]
      /\ jobs' = [jobs EXCEPT ![id].locked = FALSE,
                              ![id].attemptsMade = made,
                              ![id].delay = RetryDelay(jobs[id], made),
                              ![id].state = RetryState(made)]
      /\ worker' = [worker EXCEPT ![w] = IdleWorker]

FindVideo(w) ==
  /\ worker[w].pc = "video"
  /\ IF videos[JobKey(worker[w].job)] # <<>>
     THEN /\ worker' = [worker EXCEPT ![w].pc = "store", ![w].stage = 1]
          /\ UNCHANGED <<videos, jobs>>
     ELSE AttemptFails(w, "Video not found")
  /\ UNCHANGED <<episodes, nextAutoId, progLog, call, bfVars, client, websub>>

(* job.updateProgress({progress, status}).  A connection that read the     *)
(* previous value as its snapshot no longer waits for that value's event.  *)
StageStore(w) ==
  /\ worker[w].pc = "store"
  /\ LET id == worker[w].job
     IN  /\ jobs' = [jobs EXCEPT ![id].progress = StageProgress[worker[w].stage]]
         /\ client' = [s \in Clients |->
                         IF client[s].ch = ProgressChannel(id)
                         THEN [client[s] EXCEPT !.snapPending = FALSE]
                         ELSE client[s]]
  /\ worker' = [worker EXCEPT ![w].pc = "publish"]
  /\ UNCHANGED <<videos, episodes, nextAutoId, progLog, call, bfVars, websub>>

(* publishProgress(job.id, progress, status).                              *)
StagePublish(w) ==
  /\ worker[w].pc = "publish"
  /\ LET id == worker[w].job
         v == StageProgress[worker[w].stage]
     IN  /\ RoomFor(ProgressChannel(id), 1)
         /\ progLog' = [progLog EXCEPT ![id].last = v,
                                       ![id].mono = @ /\ v >= progLog[id].last]
         /\ client' = Published(ProgressChannel(id), <<v>>)
  /\ worker' = [worker EXCEPT ![w].pc = "work"]
  /\ UNCHANGED <<videos, episodes, jobs, nextAutoId, call, bfVars, websub>>

StageOutcomes == {"ok", "throw", "throwLate"}

(* The work of the stage that was just reported.  "throw": it throws;      *)
(* "throwLate": createSegmentation throws, after createEpisode.  After     *)
(* 100 was reported the orchestrator returns and the job is completed.     *)
StageWork(w, outcome, raw, publish) ==
  /\ worker[w].pc = "work"
  /\ LET id == worker[w].job
         k == JobKey(id)
         st == worker[w].stage
         inserts == st = EpisodeStage /\ outcome # "throw" /\ UniqueEpisode(episodes[k])
     IN  /\ outcome = "throwLate" => st = EpisodeStage
         /\ st = NumStages => outcome = "ok"
         /\ episodes' = IF inserts
                        THEN [episodes EXCEPT ![k] = Append(@, createEpisode([published |-> publish]))]
                        ELSE episodes
         /\ progLog' = [progLog EXCEPT
                          ![id].completedOnce = @ \/ st = NumStages,
                          ![id].temp = IF outcome = "ok"
                                       THEN Cleanup(@ \cup WrittenBy(st), inserts, FALSE)
                                       ELSE @]
         /\ IF st = NumStages
            THEN /\ jobs' = [jobs EXCEPT ![id].locked = FALSE, ![id].state = "completed"]
                 /\ worker' = [worker EXCEPT ![w] = IdleWorker]
                 /\ UNCHANGED videos
            ELSE IF st = EpisodeStage /\ outcome # "throw" /\ ~UniqueEpisode(episodes[k])
            THEN AttemptFails(w, "Failed to create episode")
            ELSE IF outcome = "ok"
            THEN /\ worker' = [worker EXCEPT ![w].pc = "store", ![w].stage = st + 1]
                 /\ UNCHANGED <<videos, jobs>>
            ELSE AttemptFails(w, raw)
  /\ UNCHANGED <<nextAutoId, call, bfVars, client, websub>>

(***************************************************************************)
(* progressStreamService.streamJobProgress and streamAgentBackfillJobs:    *)
(* write "connected", read the snapshot, write it, and only then open the  *)
(* subscription and forward what arrives on it.                            *)
(***************************************************************************)
StreamConnect(s, kind, ch) ==
  /\ client[s].pc \in {"idle", "ended"}
  /\ client' = [client EXCEPT ![s] = [IdleClient EXCEPT !.pc = "snapshot", !.kind = kind,
                                                        !.ch = ch]]
  /\ UNCHANGED <<videos, episodes, jobs, nextAutoId, progLog, call, worker, bfVars, websub>>

(* getJob / getAgentBackfillJobs and the write of what was read.  The job  *)
(* stream ends with "Job not found" when there is no job, and writes no    *)
(* snapshot while job.progress is still 0.                                 *)
StreamSnapshot(s) ==
  /\ client[s].pc = "snapshot"
  /\ LET ch == client[s].ch
     IN  IF client[s].kind = "job"
         THEN IF jobs[ch].state = "none"
              THEN client' = [client EXCEPT ![s].pc = "ended"]
              ELSE client' = [client EXCEPT
                     ![s].pc = "subscribe",
                     ![s].snap = jobs[ch].progress,
                     ![s].snapPending = \E w \in Workers :
                                           worker[w].job = ch /\ worker[w].pc = "publish"]
         ELSE client' = [client EXCEPT ![s].pc = "subscribe"]
  /\ UNCHANGED <<videos, episodes, jobs, nextAutoId, progLog, call, worker, bfVars, websub>>

(* await subscriber.subscribe(channel), then on(subscriber, "message").    *)
StreamSubscribe(s) ==
  /\ client[s].pc = "subscribe"
  /\ client' = [client EXCEPT ![s].pc = "listening"]
  /\ UNCHANGED <<videos, episodes, jobs, nextAutoId, progLog, call, worker, bfVars, websub>>

(* The update that ends the job stream: progress >= 100, or status         *)
(* completed or failed.                                                    *)
IsTerminal(cl, ev) ==
  cl.kind = "job" /\ (ev.value >= 100 \/ ev.status = "completed" \/ ev.status = "failed")

(* One turn of the for-await loop: take the oldest queued message, write   *)
(* it to the response; on the terminal update write "complete", end the    *)
(* response and unsubscribe.                                               *)
StreamDeliver(s) ==
  /\ client[s].pc = "listening"
  /\ client[s].buffer # <<>>
  /\ LET ev == Head(client[s].buffer)
         term == IsTerminal(client[s], ev)
     IN  client' = [client EXCEPT
                      ![s].buffer = IF term THEN <<>> ELSE Tail(@),
                      ![s].nRecv = @ + 1,
                      ![s].inOrder = @ /\ ev.n = client[s].nRecv + 1,
                      ![s].dup = @ \/ ev.dup,
                      ![s].done = term,
                      ![s].pc = IF term THEN "ended" ELSE "listening"]
  /\ UNCHANGED <<videos, episodes, jobs, nextAutoId, progLog, call, worker, bfVars, websub>>

(* req "close" on the backfill stream: the AbortController stops the       *)
(* iterator and the subscription is dropped.                               *)
StreamAbort(s) ==
  /\ client[s].kind = "backfill"
  /\ client[s].pc \in {"subscribe", "listening"}
  /\ client' = [client EXCEPT ![s].pc = "ended", ![s].buffer = <<>>, ![s].closed = TRUE]
  /\ UNCHANGED <<videos, episodes, jobs, nextAutoId, progLog, call, worker, bfVars, websub>>

(***************************************************************************)
(* backfillController.backfillAgent: createJob inserts the row as pending  *)
(* and publishes it; enqueueBackfillJob adds the backfill-scan job with    *)
(* priority 1 and an id of BullMQ's, and swallows a Redis error.           *)
(***************************************************************************)
BackfillEvent(j, what) == [jobId |-> j, what |-> what]

(* publishBackfillJob: one message on agent:backfill:{agentId}.            *)
publishBackfillJob(agentId, j, what) ==
  Published(BackfillChannel(agentId), <<BackfillEvent(j, what)>>)

CanPublishBackfill(agentId) == RoomFor(BackfillChannel(agentId), 1)

NewScanJob(j) ==
  [NoJob EXCEPT !.name = "backfill-scan", !.state = "prioritized",
                !.agentId = backfill[j].agentId, !.bfId = j]

(* The two tests at the head of createJob: the error thrown, or "none".    *)
CreateRefusal_ExistsOnly(agentId) ==
  IF findAgentById(agentId).status = "none" THEN "Agent not found" ELSE "none"

CreateRefusal(agentId) ==
  IF findAgentById(agentId).status = "none" THEN "Agent not found"
  ELSE IF findAgentById(agentId).status # "active" THEN "Agent must be active to backfill videos"
  ELSE "none"

createJob(j, agentId) ==
  /\ backfill[j].status = "none"
  /\ CreateRefusal(agentId) = "none"
  /\ CanPublishBackfill(agentId)
  /\ backfill' = [backfill EXCEPT ![j] = [NoBackfill EXCEPT !.status = "pending",
                                                            !.agentId = agentId,
                                                            !.req = "created"]]
  /\ client' = publishBackfillJob(agentId, j, "pending")
  /\ UNCHANGED <<videos, episodes, jobs, nextAutoId, progLog, call, worker, scan, cancel, websub>>

enqueueBackfillJob(j, ok) ==
  /\ backfill[j].req = "created"
  /\ backfill' = [backfill EXCEPT ![j].req = "done"]
  /\ IF ok
     THEN /\ FreshId \in JobIds
          /\ jobs' = [jobs EXCEPT ![FreshId] = NewScanJob(j)]
          /\ nextAutoId' = nextAutoId + 1
     ELSE UNCHANGED <<jobs, nextAutoId>>
  /\ UNCHANGED <<videos, episodes, progLog, call, worker, scan, cancel, client, websub>>

(***************************************************************************)
(* backfillJobService.processBackfillJob, run by the worker that holds the *)
(* backfill-scan job.  Each await is a step; the publish that follows a    *)
(* database write without an await belongs to the step of the write.       *)
(***************************************************************************)
ScanKey(w) == <<backfill[scan[w].bf].agentId, scan[w].idx>>

(* Where the loop goes after the video in hand.                            *)
NextVideo(sc) ==
  IF sc.idx < sc.n THEN [sc EXCEPT !.pc = "video", !.idx = @ + 1]
  ELSE [sc EXCEPT !.pc = "final"]

(* processedCount % 10 === 0 || processedCount === youtubeVideos.length    *)
ProgressDue(sc) == sc.processedCount % 10 = 0 \/ sc.processedCount = sc.n

AfterVideo(sc) == IF ProgressDue(sc) THEN [sc EXCEPT !.pc = "progress"] ELSE NextVideo(sc)

VideoFailed_Abort(sc, raw) == [sc EXCEPT !.pc = "abort", !.err = raw]

(* The per-video catch: push {videoId, reason: getGenericErrorMessage}.    *)
VideoFailed(sc, raw) ==
  [sc EXCEPT !.pc = "recFail",
             !.failedVideos = Append(@, [videoId |-> sc.idx,
                                         reason |-> getGenericErrorMessage(raw)]),
             !.threw = @ \cup {sc.idx}]

(* The scan job leaves the worker: completed, or failed (attempts: 1).     *)
ScanJobEnds(w, state) ==
  /\ jobs' = [jobs EXCEPT ![worker[w].job].locked = FALSE,
                          ![worker[w].job].state = state,
                          ![worker[w].job].attemptsMade = @ + 1]
  /\ worker' = [worker EXCEPT ![w] = IdleWorker]

ScanFind(w) ==
  /\ worker[w].pc = "scan" /\ scan[w].pc = "find"
  /\ IF backfill[scan[w].bf].status # "none"
     THEN /\ scan' = [scan EXCEPT ![w].pc = "mark"]
          /\ UNCHANGED <<jobs, worker>>
     ELSE /\ scan' = [scan EXCEPT ![w].pc = "failed", ![w].err = "Backfill job not found"]
          /\ ScanJobEnds(w, "failed")
  /\ UNCHANGED <<videos, episodes, nextAutoId, progLog, call, backfill, cancel, client, websub>>

ScanMark(w) ==
  /\ worker[w].pc = "scan" /\ scan[w].pc = "mark"
  /\ LET j == scan[w].bf
     IN  /\ CanPublishBackfill(backfill[j].agentId)
         /\ backfill' = [backfill EXCEPT ![j].status = "processing", ![j].error = "none"]
         /\ client' = publishBackfillJob(backfill[j].agentId, j, "processing")
  /\ scan' = [scan EXCEPT ![w].pc = "fetch"]
  /\ UNCHANGED <<videos, episodes, jobs, nextAutoId, progLog, call, worker, cancel, websub>>

(* fetchChannelVideosSince: it lists the videos 1..n, or throws.           *)
ScanFetch(w, n, ok) ==
  /\ worker[w].pc = "scan" /\ scan[w].pc = "fetch"
  /\ scan' = [scan EXCEPT ![w] = IF ok THEN [@ EXCEPT !.pc = "total", !.n = n]
                                 ELSE [@ EXCEPT !.pc = "abort", !.err = "quotaExceeded"]]
  /\ UNCHANGED <<videos, episodes, jobs, nextAutoId, progLog, call, worker, backfill,
                 cancel, client, websub>>

ScanTotal(w) ==
  /\ worker[w].pc = "scan" /\ scan[w].pc = "total"
  /\ LET j == scan[w].bf
     IN  /\ CanPublishBackfill(backfill[j].agentId)
         /\ backfill' = [backfill EXCEPT ![j].total = scan[w].n]
         /\ client' = publishBackfillJob(backfill[j].agentId, j, "total")
  /\ scan' = [scan EXCEPT ![w] = NextVideo(@)]
  /\ UNCHANGED <<videos, episodes, jobs, nextAutoId, progLog, call, worker, cancel, websub>>

(* The loop takes up the next video and calls upsertVideo.                 *)
ScanUpsert(w) ==
  /\ worker[w].pc = "scan" /\ scan[w].pc = "video"
  /\ scan' = [scan EXCEPT ![w].pc = "upsert", ![w].attempted = @ \cup {scan[w].idx}]
  /\ call' = [call EXCEPT ![w] = [IdleCall EXCEPT !.pc = "upFind", !.key = ScanKey(w)]]
  /\ UNCHANGED <<videos, episodes, jobs, nextAutoId, progLog, worker, backfill, cancel,
                 client, websub>>

(* upsertVideo has returned or thrown.  Only a "discovered" video is       *)
(* enqueued.                                                               *)
ScanAfterUpsert(w) ==
  /\ worker[w].pc = "scan" /\ scan[w].pc = "upsert"
  /\ call[w].pc = "upRet"
  /\ IF call[w].result = "throw"
     THEN /\ scan' = [scan EXCEPT ![w] = VideoFailed(@, call[w].err)]
          /\ call' = [call EXCEPT ![w] = IdleCall]
     ELSE IF call[w].row = "discovered"
     THEN /\ scan' = [scan EXCEPT ![w].pc = "enqueue", ![w].processedCount = @ + 1]
          /\ call' = [call EXCEPT ![w].pc = "getJob"]
     ELSE /\ scan' = [scan EXCEPT ![w] = AfterVideo([@ EXCEPT !.processedCount = @ + 1])]
          /\ call' = [call EXCEPT ![w] = IdleCall]
  /\ UNCHANGED <<videos, episodes, jobs, nextAutoId, progLog, worker, backfill, cancel,
                 client, websub>>

(* enqueueProcessVideo has returned or thrown.                             *)
ScanAfterEnqueue(w) ==
  /\ worker[w].pc = "scan" /\ scan[w].pc = "enqueue"
  /\ call[w].pc = "enqRet"
  /\ LET j == scan[w].bf
     IN  IF call[w].result = "throw"
         THEN /\ scan' = [scan EXCEPT ![w] = VideoFailed(@, call[w].err)]
              /\ UNCHANGED client
         ELSE IF call[w].result = "true"
         THEN /\ CanPublishBackfill(backfill[j].agentId)
              /\ scan' = [scan EXCEPT ![w] =
                            AfterVideo([@ EXCEPT !.enqueuedCount = @ + 1,
                                                 !.activeVideoIds = Append(@, scan[w].idx)])]
              /\ client' = publishBackfillJob(backfill[j].agentId, j, "activeVideoIds")
         ELSE /\ scan' = [scan EXCEPT ![w] = AfterVideo(@)]
              /\ UNCHANGED client
  /\ call' = [call EXCEPT ![w] = IdleCall]
  /\ UNCHANGED <<videos, episodes, jobs, nextAutoId, progLog, worker, backfill, cancel, websub>>

(* updateJobProgress({processed_videos, enqueued_videos, ...}), publish.   *)
ScanProgress(w) ==
  /\ worker[w].pc = "scan" /\ scan[w].pc = "progress"
  /\ LET j == scan[w].bf
     IN  /\ CanPublishBackfill(backfill[j].agentId)
         /\ backfill' = [backfill EXCEPT ![j].processed = scan[w].processedCount,
                                         ![j].enqueued = scan[w].enqueuedCount,
                                         ![j].reportedFailed = scan[w].failedVideos]
         /\ client' = publishBackfillJob(backfill[j].agentId, j, "progress")
  /\ scan' = [scan EXCEPT ![w] = NextVideo(@)]
  /\ UNCHANGED <<videos, episodes, jobs, nextAutoId, progLog, call, worker, cancel, websub>>

(* updateJobProgress({failed_videos}) in the catch: the repository writes  *)
(* no column for it.                                                       *)
ScanRecordFailure(w) ==
  /\ worker[w].pc = "scan" /\ scan[w].pc = "recFail"
  /\ scan' = [scan EXCEPT ![w] = NextVideo(@)]
  /\ UNCHANGED <<videos, episodes, jobs, nextAutoId, progLog, call, worker, backfill,
                 cancel, client, websub>>

ScanFinal(w) ==
  /\ worker[w].pc = "scan" /\ scan[w].pc = "final"
  /\ backfill' = [backfill EXCEPT ![scan[w].bf].processed = scan[w].processedCount,
                                  ![scan[w].bf].enqueued = scan[w].enqueuedCount]
  /\ scan' = [scan EXCEPT ![w].pc = "complete"]
  /\ UNCHANGED <<videos, episodes, jobs, nextAutoId, progLog, call, worker, cancel, client, websub>>

(* updateJobStatus(jobId, "completed"), publish, return.                   *)
ScanComplete(w) ==
  /\ worker[w].pc = "scan" /\ scan[w].pc = "complete"
  /\ LET j == scan[w].bf
     IN  /\ CanPublishBackfill(backfill[j].agentId)
         /\ backfill' = [backfill EXCEPT ![j].status = "completed", ![j].error = "none",
                                         ![j].reportedFailed = scan[w].failedVideos]
         /\ client' = publishBackfillJob(backfill[j].agentId, j, "completed")
  /\ scan' = [scan EXCEPT ![w].pc = "done"]
  /\ ScanJobEnds(w, "completed")
  /\ UNCHANGED <<videos, episodes, nextAutoId, progLog, call, cancel, websub>>

(* The outer catch: updateJobStatus(jobId, "failed", error.message),       *)
(* publish, rethrow.                                                       *)
ScanAbort(w) ==
  /\ worker[w].pc = "scan" /\ scan[w].pc = "abort"
  /\ LET j == scan[w].bf
     IN  /\ CanPublishBackfill(backfill[j].agentId)
         /\ backfill' = [backfill EXCEPT ![j].status = "failed", ![j].error = scan[w].err]
         /\ client' = publishBackfillJob(backfill[j].agentId, j, "failed")
  /\ scan' = [scan EXCEPT ![w].pc = "failed"]
  /\ ScanJobEnds(w, "failed")
  /\ UNCHANGED <<videos, episodes, nextAutoId, progLog, call, cancel, websub>>

(***************************************************************************)
(* backfillJobService.cancelJob.                                           *)
(***************************************************************************)
(* The job states getJobs(["waiting", "active", "delayed"]) returns.  A    *)
(* job added with a priority is "prioritized" in BullMQ 4 and later and    *)
(* "waiting" before: either can be the build.                              *)
ListedStates(listsPrioritized) ==
  {"waiting", "active", "delayed"} \cup (IF listsPrioritized THEN {"prioritized"} ELSE {})

(* The jobs of the list that cancelJob removes: the scan job of this       *)
(* BackfillJob, and the agent's video jobs whose data.source is "backfill". *)
CancelTargets(j, listed) ==
  {id \in JobIds :
     /\ jobs[id].state \in listed
     /\ \/ jobs[id].name = "backfill-scan" /\ jobs[id].bfId = j
        \/ /\ jobs[id].name = "process_video"
           /\ jobs[id].agentId = backfill[j].agentId
           /\ jobs[id].source = "backfill"}

(* The three tests at the head of cancelJob: the error thrown, or "none". *)
CancelRefusal_AnyStatus(j, agentId) ==
  IF backfill[j].status = "none" THEN "Backfill job not found"
  ELSE IF backfill[j].agentId # agentId THEN "Job does not belong to this agent"
  ELSE "none"

CancelRefusal(j, agentId) ==
  IF backfill[j].status = "none" THEN "Backfill job not found"
  ELSE IF backfill[j].agentId # agentId THEN "Job does not belong to this agent"
  ELSE IF backfill[j].status \notin {"pending", "processing"}
    THEN "Cannot cancel job with status"
  ELSE "none"

(* cancelJob called by the agent the job belongs to, past the three tests. *)
CancelStart(x, j) ==
  /\ cancel[x].pc = "idle"
  /\ CancelRefusal(j, backfill[j].agentId) = "none"
  /\ cancel' = [cancel EXCEPT ![x] = [IdleCancel EXCEPT !.pc = "getJobs", !.bf = j,
                                                        !.agentId = backfill[j].agentId]]
  /\ UNCHANGED <<videos, episodes, jobs, nextAutoId, progLog, call, worker, backfill, scan,
                 client, websub>>

CancelGetJobs(x, listsPrioritized) ==
  /\ cancel[x].pc = "getJobs"
  /\ cancel' = [cancel EXCEPT ![x].pc = "remove",
                              ![x].targets = CancelTargets(cancel[x].bf,
                                                           ListedStates(listsPrioritized))]
  /\ UNCHANGED <<videos, episodes, jobs, nextAutoId, progLog, call, worker, backfill, scan,
                 client, websub>>

(* queueJob.remove(): it throws for a job whose lock a worker holds, and   *)
(* cancelJob rethrows without having written the status.                   *)
CancelRemove(x, id) ==
  /\ cancel[x].pc = "remove"
  /\ id \in cancel[x].targets
  /\ IF jobs[id].locked
     THEN /\ cancel' = [cancel EXCEPT ![x] = IdleCancel]
          /\ UNCHANGED jobs
     ELSE /\ cancel' = [cancel EXCEPT ![x].targets = @ \ {id}]
          /\ jobs' = [jobs EXCEPT ![id] = NoJob]
  /\ UNCHANGED <<videos, episodes, nextAutoId, progLog, call, worker, backfill, scan, client, websub>>

ScanRunning(j) == \E w \in Workers : worker[w].pc = "scan" /\ scan[w].bf = j

(* updateJobStatus(jobId, "failed", "Cancelled by user"), publish.         *)
CancelSetFailed(x) ==
  /\ cancel[x].pc = "remove"
  /\ cancel[x].targets = {}
  /\ LET j == cancel[x].bf
     IN  /\ CanPublishBackfill(backfill[j].agentId)
         /\ backfill' = [backfill EXCEPT ![j].status = "failed",
                                         ![j].error = "Cancelled by user",
                                         ![j].cancelled = @ \/ ScanRunning(j)]
         /\ client' = publishBackfillJob(backfill[j].agentId, j, "failed")
  /\ cancel' = [cancel EXCEPT ![x] = IdleCancel]
  /\ UNCHANGED <<videos, episodes, jobs, nextAutoId, progLog, call, worker, scan, websub>>

(***************************************************************************)
(* The broker's own steps: the backoff delay ends; a retained completed or *)
(* failed record is reclaimed (removeOnComplete / removeOnFail); a worker  *)
(* process dies, its lock runs out and the stalled job is put back or      *)
(* failed.                                                                 *)
(***************************************************************************)
PromoteDelayed(id) ==
  /\ jobs[id].state = "delayed"
  /\ jobs' = [jobs EXCEPT ![id].state = "waiting"]
  /\ UNCHANGED <<videos, episodes, nextAutoId, progLog, call, worker, bfVars, client, websub>>

ReclaimFinished(id) ==
  /\ jobs[id].state \in {"completed", "failed"}
  /\ jobs' = [jobs EXCEPT ![id] = NoJob]
  /\ UNCHANGED <<videos, episodes, nextAutoId, progLog, call, worker, bfVars, client, websub>>

WorkerCrash(w) ==
  /\ worker[w].pc # "idle"
  /\ worker' = [worker EXCEPT ![w] = IdleWorker]
  /\ call' = [call EXCEPT ![w] = IdleCall]
  /\ scan' = [scan EXCEPT ![w] = IdleScan]
  /\ UNCHANGED <<videos, episodes, jobs, nextAutoId, progLog, backfill, cancel, client, websub>>

LockExpire(id) ==
  /\ jobs[id].state = "active"
  /\ jobs[id].locked
  /\ \A w \in Workers : worker[w].job # id
  /\ jobs' = [jobs EXCEPT ![id].locked = FALSE]
  /\ UNCHANGED <<videos, episodes, nextAutoId, progLog, call, worker, bfVars, client, websub>>

StalledRecover(id, to) ==
  /\ jobs[id].state = "active"
  /\ ~jobs[id].locked
  /\ jobs' = [jobs EXCEPT ![id].state = to]
  /\ UNCHANGED <<videos, episodes, nextAutoId, progLog, call, worker, bfVars, client, websub>>

(* Without the retry backoff: what the broker does to jobs with attempts: 1. *)
BrokerRecovery ==
  \/ \E id \in JobIds : ReclaimFinished(id)
  \/ \E w \in Workers : WorkerCrash(w)
  \/ \E id \in JobIds : LockExpire(id)
  \/ \E id \in JobIds, to \in {"waiting", "failed"} : StalledRecover(id, to)

Broker ==
  \/ \E id \in JobIds : PromoteDelayed(id)
  \/ \E id \in JobIds : ReclaimFinished(id)
  \/ \E w \in Workers : WorkerCrash(w)
  \/ \E id \in JobIds : LockExpire(id)
  \/ \E id \in JobIds, to \in {"waiting", "failed"} : StalledRecover(id, to)

(* The steps of one notification handler.                                  *)
NotifyStep(n, keys) ==
  \/ \E k \in keys : NotifyStart(n, k)
  \/ NotifyEnqueued(n)
  \/ UpsertFind(n)
  \/ UpsertInsert(n)
  \/ UpsertError(n)
  \/ EnqGetJob(n)
  \/ EnqGetState(n)
  \/ EnqRemove(n)
  \/ EnqAdd(n)

(***************************************************************************)
(* Spec: the dedup of enqueueProcessVideo.  Two notification handlers run  *)
(* concurrently for the same video while the worker processes, retries and *)
(* completes its job; a run either succeeds or fails at the download.      *)
(***************************************************************************)
DedupKeys == {<<"a1", 1>>}
DedupFailPoints == {0, 1}

DedupWork ==
  \/ \E w \in Workers, id \in JobIds : WorkerTake(w, id)
  \/ \E w \in Workers, failAt \in DedupFailPoints :
        HandleVideoJob(w, failAt, "ECONNRESET", TRUE, FALSE)

Next ==
  \/ \E n \in Notifiers : NotifyStep(n, DedupKeys)
  \/ DedupWork
  \/ Broker

Spec == Init /\ [][Next]_vars

(***************************************************************************)
(* SpecPipeline: one notification handler, and runs of the pipeline that   *)
(* fail at any stage, with any error and any publish decision.             *)
(***************************************************************************)
PipelineWork ==
  \/ \E w \in Workers, id \in JobIds : WorkerTake(w, id)
  \/ \E w \in Workers, failAt \in FailPoints, raw \in RawErrors,
        publish \in BOOLEAN, unlinkFails \in BOOLEAN :
        HandleVideoJob(w, failAt, raw, publish, unlinkFails)

NextPipeline ==
  \/ NotifyStep(<<"n", 1>>, DedupKeys)
  \/ PipelineWork
  \/ Broker

SpecPipeline == Init /\ [][NextPipeline]_vars

(***************************************************************************)
(* SpecStream: one SSE connection on the progress stream of a video's job  *)
(* while the worker runs the job step by step, fails and retries.          *)
(***************************************************************************)
StreamWork ==
  \/ \E w \in Workers, id \in JobIds : WorkerTake(w, id)
  \/ \E w \in Workers : FindVideo(w)
  \/ \E w \in Workers : StageStore(w)
  \/ \E w \in Workers : StagePublish(w)
  \/ \E w \in Workers, outcome \in StageOutcomes : StageWork(w, outcome, "ECONNRESET", TRUE)

JobStream ==
  \/ \E s \in Viewers, k \in DedupKeys : StreamConnect(s, "job", ProgressChannel(JobIdOf(k[1], k[2])))
  \/ \E s \in Viewers : StreamSnapshot(s)
  \/ \E s \in Viewers : StreamSubscribe(s)
  \/ \E s \in Viewers : StreamDeliver(s)

NextStream ==
  \/ StreamWork
  \/ JobStream
  \/ Broker

(* The state after one notification was handled: the video is discovered  *)
(* and its job waits in the queue.                                         *)
InitStream ==
  /\ videos = [k \in Keys |-> IF k \in DedupKeys THEN <<NewVideoRow>> ELSE <<>>]
  /\ episodes = [k \in Keys |-> <<>>]
  /\ jobs = [id \in JobIds |-> IF id \in DedupKeys THEN NewVideoJob(id) ELSE NoJob]
  /\ nextAutoId = 1
  /\ progLog = [id \in JobIds |-> NoLog]
  /\ call = [c \in Callers |-> IdleCall]
  /\ worker = [w \in Workers |-> IdleWorker]
  /\ backfill = [j \in BackfillIds |-> NoBackfill]
  /\ scan = [w \in Workers |-> IdleScan]
  /\ cancel = [x \in Cancellers |-> IdleCancel]
  /\ client = [s \in Clients |-> IdleClient]
  /\ websub = OneAgent

SpecStream == InitStream /\ [][NextStream]_vars

(***************************************************************************)
(* SpecBackfill: one backfill request, the scan it starts, a cancel        *)
(* request, and the worker that runs the scan and then the video jobs.     *)
(***************************************************************************)
(* The steps of a scan that finds no job in the queue for any video.       *)
ScanOnEmptyQueue(w) ==
  \/ ScanFind(w)
  \/ ScanMark(w)
  \/ \E n \in 0..NumVideos, ok \in BOOLEAN : ScanFetch(w, n, ok)
  \/ ScanTotal(w)
  \/ ScanUpsert(w)
  \/ UpsertFind(w)
  \/ UpsertInsert(w)
  \/ UpsertError(w)
  \/ ScanAfterUpsert(w)
  \/ EnqGetJob(w)
  \/ EnqAdd(w)
  \/ EnqError(w)
  \/ ScanAfterEnqueue(w)
  \/ ScanProgress(w)
  \/ ScanRecordFailure(w)
  \/ ScanFinal(w)
  \/ ScanComplete(w)
  \/ ScanAbort(w)

ScanStep(w) ==
  \/ ScanOnEmptyQueue(w)
  \/ EnqGetState(w)
  \/ EnqRemove(w)

CancelStep(x) ==
  \/ \E j \in BackfillIds : CancelStart(x, j)
  \/ \E lp \in BOOLEAN : CancelGetJobs(x, lp)
  \/ \E id \in JobIds : CancelRemove(x, id)
  \/ CancelSetFailed(x)

BackfillStream ==
  \/ \E s \in Viewers, a \in Agents : StreamConnect(s, "backfill", BackfillChannel(a))
  \/ \E s \in Viewers : StreamSnapshot(s)
  \/ \E s \in Viewers : StreamSubscribe(s)
  \/ \E s \in Viewers : StreamDeliver(s)
  \/ \E s \in Viewers : StreamAbort(s)

NextBackfill ==
  \/ \E j \in BackfillIds, a \in Agents : createJob(j, a)
  \/ \E j \in BackfillIds, ok \in BOOLEAN : enqueueBackfillJob(j, ok)
  \/ \E w \in Workers : ScanStep(w)
  \/ \E x \in Cancellers : CancelStep(x)
  \/ \E w \in Workers, id \in JobIds : WorkerTake(w, id)
  \/ BrokerRecovery

(* The backfill starts on an empty videos table, or on one where the first *)
(* video has failed for good and the record of its job is gone.            *)
FailedVideoRow == [status |-> "failed", error |-> "Processing failed"]

InitBackfill ==
  /\ \E known \in {<<>>, <<FailedVideoRow>>} :
        videos = [k \in Keys |-> IF k \in DedupKeys THEN known ELSE <<>>]
  /\ episodes = [k \in Keys |-> <<>>]
  /\ jobs = [id \in JobIds |-> NoJob]
  /\ nextAutoId = 1
  /\ progLog = [id \in JobIds |-> NoLog]
  /\ call = [c \in Callers |-> IdleCall]
  /\ worker = [w \in Workers |-> IdleWorker]
  /\ backfill = [j \in BackfillIds |-> NoBackfill]
  /\ scan = [w \in Workers |-> IdleScan]
  /\ cancel = [x \in Cancellers |-> IdleCancel]
  /\ client = [s \in Clients |-> IdleClient]
  /\ websub = OneAgent

SpecBackfill == InitBackfill /\ [][NextBackfill]_vars

(***************************************************************************)
(* SpecBackfillStream: one SSE connection on the agent's backfill stream   *)
(* while a backfill is requested and scanned.                              *)
(***************************************************************************)
NextBackfillStream ==
  \/ \E j \in BackfillIds, a \in Agents : createJob(j, a)
  \/ \E j \in BackfillIds, ok \in BOOLEAN : enqueueBackfillJob(j, ok)
  \/ \E w \in Workers : ScanOnEmptyQueue(w)
  \/ \E w \in Workers, id \in JobIds : WorkerTake(w, id)
  \/ BackfillStream

SpecBackfillStream == Init /\ [][NextBackfillStream]_vars

(***************************************************************************)
(* SpecBackfillRun: one backfill request on an empty videos table, the     *)
(* scan it starts, and then the runs of the video jobs the scan added,     *)
(* each of which succeeds or fails at the transcription, with the retries  *)
(* of the queue.                                                           *)
(***************************************************************************)
(* runSermonAiStage is the work of the second stage.                       *)
TranscriptionStage == 2

NextBackfillRun ==
  \/ \E j \in BackfillIds, a \in Agents : createJob(j, a)
  \/ \E j \in BackfillIds, ok \in BOOLEAN : enqueueBackfillJob(j, ok)
  \/ \E w \in Workers : ScanOnEmptyQueue(w)
  \/ \E w \in Workers, id \in JobIds : WorkerTake(w, id)
  \/ \E w \in Workers, failAt \in {0, TranscriptionStage} :
        HandleVideoJob(w, failAt, "ECONNRESET", TRUE, FALSE)
  \/ \E id \in JobIds : PromoteDelayed(id)

SpecBackfillRun == Init /\ [][NextBackfillRun]_vars

(***************************************************************************)
(* SpecWebhook: the hub's verification GETs with any mode, topic and       *)
(* challenge, and notification POSTs, one after the other, with any        *)
(* signature header, for the known video and for a feed without a usable   *)
(* entry, in production or not; the handler runs through the upsert and    *)
(* the enqueue, either of which can fail.  No worker runs, so a job that   *)
(* was added stays waiting.                                                *)
(***************************************************************************)
WebhookStep(n) ==
  \/ \E body \in Bodies, sig \in Signatures, production \in BOOLEAN :
        handleNotification(n, body, sig, production)
  \/ \E found \in BOOLEAN : processYouTubeNotification(n, found)
  \/ UpsertFind(n)
  \/ UpsertInsert(n)
  \/ UpsertError(n)
  \/ EnqGetJob(n)
  \/ EnqGetState(n)
  \/ EnqAdd(n)
  \/ EnqError(n)
  \/ NotifyEnqueued(n)
  \/ \E mode \in Modes, topic \in Topics, challenge \in Challenges :
        verifyIntent(n, mode, topic, challenge)
  \/ IntentAnswered(n)

NextWebhook == WebhookStep(<<"n", 1>>)

SpecWebhook == Init /\ [][NextWebhook]_vars

(***************************************************************************)
(* The claims.                                                             *)
(***************************************************************************)
CallJobId(c) == JobIdOf(call[c].key[1], call[c].key[2])

InFlightJobs(k) ==
  {id \in JobIds : /\ jobs[id].name = "process_video"
                   /\ JobKey(id) = k
                   /\ jobs[id].state \in {"waiting", "delayed", "active"}}

Executing(k) ==
  {w \in Workers : worker[w].pc = "video" /\ JobKey(worker[w].job) = k}

(* C1: in every reachable state, for every key (agentId, youtubeVideoId),  *)
(* at most one process_video job is waiting, delayed or active, at most    *)
(* one worker executes a job for the key, and the job a worker executes is *)
(* that one job.                                                           *)
C1_AtMostOneInFlight ==
  \A k \in Keys :
    /\ Cardinality(InFlightJobs(k)) <= 1
    /\ Cardinality(Executing(k)) <= 1
    /\ \A w \in Executing(k) : InFlightJobs(k) = {worker[w].job}

(* An enqueue call has returned enqueued=true while a worker executes the  *)
(* job of its key and another call for the key is in progress.             *)
C1_Witness ==
  \E c, d \in Notifiers :
    /\ c # d
    /\ call[c].pc = "enqRet" /\ call[c].result = "true"
    /\ call[d].pc \in {"getState", "remove", "add"}
    /\ call[d].key = call[c].key
    /\ Executing(call[c].key) # {}

(* C2: the step of enqueueProcessVideo that reads the state of the         *)
(* existing job, when that state is waiting or delayed, returns            *)
(* enqueued=false and leaves the queue as it is.                           *)
C2_DuplicateRejected ==
  [][\A c \in Callers :
       (/\ call[c].pc = "getState"
        /\ call'[c] # call[c]
        /\ jobs[CallJobId(c)].state \in {"waiting", "delayed"})
       => (/\ call'[c].pc = "enqRet"
           /\ call'[c].result = "false"
           /\ jobs' = jobs)]_vars

(* A call has returned enqueued=false for a job that is delayed, waiting   *)
(* for its retry.                                                          *)
C2_Witness ==
  \E c \in Notifiers :
    /\ call[c].pc = "enqRet" /\ call[c].result = "false"
    /\ call[c].st = "delayed"
    /\ jobs[CallJobId(c)].state = "delayed"

(* C3: once a job of the key has been completed, an enqueue call that      *)
(* finds the completed record, or finds no record, returns enqueued=true.  *)
C3_AcceptedAfterCompletion ==
  \A c \in Callers :
    (/\ call[c].pc = "enqRet"
     /\ progLog[CallJobId(c)].completedOnce
     /\ call[c].st \in {"completed", "none"})
    => call[c].result = "true"

(* One call has returned true on the retained completed record, another    *)
(* after the record was reclaimed.                                         *)
C3_Witness ==
  \E c, d \in Notifiers :
    /\ call[c].pc = "enqRet" /\ call[c].st = "completed" /\ call[c].result = "true"
    /\ call[d].pc = "enqRet" /\ call[d].st = "none" /\ call[d].result = "true"
    /\ progLog[CallJobId(c)].completedOnce
    /\ call[d].key = call[c].key

(* C4: every Video has at most one Episode.                                *)
C4_AtMostOneEpisode == \A k \in Keys : Len(episodes[k]) <= 1

(* A job of a Video whose Episode exists since an earlier, completed job   *)
(* has run up to the episode record and failed, and was retried.           *)
C4_Witness ==
  \E k \in Keys :
    /\ Len(episodes[k]) = 1
    /\ progLog[JobIdOf(k[1], k[2])].completedOnce
    /\ jobs[JobIdOf(k[1], k[2])].state = "delayed"
    /\ jobs[JobIdOf(k[1], k[2])].attemptsMade >= 2
    /\ jobs[JobIdOf(k[1], k[2])].progress = StageProgress[EpisodeStage]

VideoStatuses == {"discovered", "processing", "processed", "failed"}

C6_MonotonicProgress ==
  \A id \in JobIds :
    jobs[id].state = "completed" => (progLog[id].mono /\ progLog[id].last = 100)

(* C7: a connection that has written its snapshot and opened its           *)
(* subscription has missed no update published between the two, and is     *)
(* never sent the update its snapshot showed as a live event.              *)
C7_SnapshotThenLive ==
  \A s \in Clients : ~client[s].missed /\ ~client[s].dup

C9_CancelStopsScan ==
  \A j \in BackfillIds :
    backfill[j].cancelled =>
      /\ backfill[j].status = "failed"
      /\ backfill[j].error = "Cancelled by user"
      /\ ~backfill[j].enqAfterCancel

FailedIds(sc) == {sc.failedVideos[i].videoId : i \in 1..Len(sc.failedVideos)}

FailedForGood(a) ==
  {v \in VideoIds : jobs[JobIdOf(a, v)].state = "failed"}

(* The scan of BackfillJob j listed and enqueued every video, and every    *)
(* video job has come to its end, exactly one of them by failing.          *)
OneVideoFailed(j) ==
  /\ backfill[j].status = "completed"
  /\ backfill[j].total = NumVideos
  /\ backfill[j].enqueued = NumVideos
  /\ \A v \in VideoIds : jobs[JobIdOf(backfill[j].agentId, v)].state \in {"completed", "failed"}
  /\ Cardinality(FailedForGood(backfill[j].agentId)) = 1

(* C11: a backfill of N new videos in which the processing of exactly one  *)
(* video fails ends completed with processedVideos = N, failedVideos       *)
(* holding exactly the entry of that video, and an Episode for each of the *)
(* other videos.                                                           *)
C11_OneFailureReported ==
  \A j \in BackfillIds :
    OneVideoFailed(j) =>
      LET a == backfill[j].agentId
      IN  /\ backfill[j].processed = NumVideos
          /\ Len(backfill[j].reportedFailed) = 1
          /\ backfill[j].reportedFailed[1].videoId \in FailedForGood(a)
          /\ \A v \in VideoIds \ FailedForGood(a) : Len(episodes[<<a, v>>]) = 1

(* C12: in every reachable state the backfill_jobs row of every            *)
(* BackfillJob has processedVideos <= totalVideos and enqueuedVideos <=    *)
(* processedVideos.                                                        *)
C12_CountersOrdered ==
  \A j \in BackfillIds :
    /\ backfill[j].processed <= backfill[j].total
    /\ backfill[j].enqueued <= backfill[j].processed

VisibleReasons == GenericMessages \cup {"Cancelled by user"}

ReasonsOf(failed) == {failed[i].reason : i \in 1..Len(failed)}

(* C14: in every reachable state every error_message of a Video, every     *)
(* reason in a BackfillJob's failedVideos and every BackfillJob's error    *)
(* is absent or one of the fixed generic strings.                          *)
C14_OnlyGenericReasons ==
  /\ \A k \in Keys : \A i \in 1..Len(videos[k]) :
        videos[k][i].error \in GenericMessages \cup {"none"}
  /\ \A w \in Workers : ReasonsOf(scan[w].failedVideos) \subseteq GenericMessages
  /\ \A j \in BackfillIds :
        /\ ReasonsOf(backfill[j].reportedFailed) \subseteq GenericMessages
        /\ backfill[j].error \in VisibleReasons \cup {"none"}

(* C15: for every job whose run has ended, by completing or by failing,    *)
(* none of the temporary files of its runs is left on disk, unless the     *)
(* cleanup itself met an error; and a run that reached its cleanup         *)
(* completes whether or not the cleanup met an error.                      *)
C15_TempFilesRemoved ==
  \A id \in JobIds :
    jobs[id].state \in {"completed", "delayed", "failed"} =>
      (progLog[id].temp = {} \/ progLog[id].cleanupErr)

(* The handlers that have passed the signature check.                      *)
PastVerification ==
  {n \in Notifiers : call[n].pc \notin {"idle", "scheduled", "answered"}}

(* C16: every notification whose handler has gone on to the upsert or the  *)
(* enqueue has the signature sha1=<hex> with <hex> the HMAC of its body,   *)
(* or has no signature and was not received in production.                 *)
C16_OnlyVerifiedNotifications ==
  \A n \in PastVerification :
    LET note == call[n].note
    IN  \/ note.sig = <<"sha1", "=">> \o Hmac(note.body)
        \/ note.sig \in {Absent, <<>>} /\ ~note.production

(* The verification request is one the hub is to be confirmed: a          *)
(* subscribe or unsubscribe for the feed of a channel, with a challenge.   *)
ValidIntent(req) ==
  /\ req.mode \in {"subscribe", "unsubscribe"}
  /\ \E ch \in Channels : req.topic = buildTopic(ch)
  /\ IsString(req.challenge) /\ req.challenge # <<>>

(* C17: a verification request is answered with 200 and its challenge as   *)
(* the body exactly when its mode is subscribe or unsubscribe, its topic   *)
(* is the feed URL of a channel and it has a challenge; every other one    *)
(* is answered with 400 and a body that is not its challenge.              *)
C17_ChallengeEchoedIffValid ==
  \A n \in Notifiers :
    call[n].pc = "answered" =>
      IF ValidIntent(call[n].note)
      THEN call[n].res = [status |-> 200, body |-> call[n].note.challenge]
      ELSE call[n].res.status = 400 /\ call[n].res.body # call[n].note.challenge

(* C18: every step of the processing of a notification, also one in which *)
(* the signature check, the parsing, the agent lookup, the upsert or the   *)
(* enqueue fails, is taken after the 200 was sent, and either ends the     *)
(* handler quietly or leaves the response as it is.                        *)
C18_AckBeforeProcessing ==
  [][\A n \in Notifiers :
       call[n].pc \notin {"idle", "answered"}
       => /\ call[n].acked
          /\ call'[n] = IdleCall \/ call'[n].acked]_vars

(* The enqueue of an acknowledged notification has thrown.                 *)
C18_Witness ==
  \E n \in Notifiers :
    /\ call[n].pc = "enqRet" /\ call[n].result = "throw"
    /\ call[n].acked
    /\ call[n].note.body = "video"

(***************************************************************************)
(* Subscription management: createAgent, the renewal cron and              *)
(* renewExpiringSubscriptions, await by await.                             *)
(***************************************************************************)

(* createAgent: insert the row (status defaults to active), subscribe,     *)
(* store the expiry; the catch marks the subscription error.               *)
createAgent(i, ok) ==
  /\ websub.agents[i].status = "none"
  /\ websub' =
       IF ok
         THEN [websub EXCEPT
                 !.agents[i] = [status |-> "active",
                                websub_expires_at |-> ExpiresAt(websub.now),
                                websub_status |-> "subscribed"],
                 !.hub[i] = Granted(@, websub.now),
                 !.rejected = HubAnswered(@, i, TRUE)]
         ELSE [websub EXCEPT
                 !.agents[i] = [status |-> "active", websub_expires_at |-> NoTime,
                                websub_status |-> "error"],
                 !.rejected = HubAnswered(@, i, FALSE)]
  /\ UNCHANGED queueVars

(* The cron expression 0 */12 * * *: one run at every twelfth hour.        *)
CronDue == websub.now % SweepPeriodHours = 0 /\ websub.sweep.startedAt # websub.now

(* The sweep's first await: findAll(), with now and renewalWindow taken.   *)
SweepStart ==
  /\ websub.sweep.pc = "idle"
  /\ CronDue
  /\ websub' = [websub EXCEPT !.sweep = [IdleSweep EXCEPT !.pc = "check",
                                                          !.list = websub.agents,
                                                          !.idx = 1,
                                                          !.startedAt = websub.now]]
  /\ UNCHANGED queueVars

(* if (expiresAt > renewalWindow) continue, negated.                       *)
ExpiringSoon_AlreadyExpired(expiresAt, now) == expiresAt <= now
ExpiringSoon(expiresAt, now) == expiresAt <= now + RenewalWindowHours

(* The three continue tests at the head of the loop body.                  *)
Skipped(agent, now) ==
  \/ agent.status # "active"
  \/ agent.websub_expires_at = NoTime
  \/ ~ExpiringSoon(agent.websub_expires_at, now)

(* The for loop's head: the next agent of the listing, or the end.         *)
SweepCheck ==
  /\ websub.sweep.pc = "check"
  /\ LET sw == websub.sweep IN
       websub' =
         IF sw.idx > NumAgents THEN [websub EXCEPT !.sweep.pc = "idle"]
         ELSE IF Skipped(sw.list[sw.idx], sw.startedAt)
                THEN [websub EXCEPT !.sweep.idx = @ + 1]
                ELSE [websub EXCEPT !.sweep.pc = "subscribe"]
  /\ UNCHANGED queueVars

(* await subscribe(...): the hub accepts and the lease starts again, or    *)
(* the call throws.                                                        *)
SweepSubscribe(ok) ==
  /\ websub.sweep.pc = "subscribe"
  /\ LET i == websub.sweep.idx IN
       websub' = [websub EXCEPT
                    !.sweep.attempted = @ \cup {i},
                    !.sweep.pc = IF ok THEN "update" ELSE "caught",
                    !.hub[i] = IF ok THEN Granted(@, websub.now) ELSE @,
                    !.rejected = HubAnswered(@, i, ok)]
  /\ UNCHANGED queueVars

(* await updateAgent(agent.id, {websub_expires_at, websub_status}) of the  *)
(* try block; its error lands in the same catch.                           *)
SweepUpdate(ok) ==
  /\ websub.sweep.pc = "update"
  /\ LET i == websub.sweep.idx IN
       websub' =
         IF ok
           THEN [websub EXCEPT
                   !.agents[i].websub_expires_at = ExpiresAt(websub.now),
                   !.agents[i].websub_status = "subscribed",
                   !.sweep.renewed = @ \cup {i},
                   !.sweep.idx = @ + 1,
                   !.sweep.pc = "check"]
           ELSE [websub EXCEPT !.sweep.pc = "caught"]
  /\ UNCHANGED queueVars

(* Where the loop goes after the catch block.                              *)
SweepAfterFailure_Abort(sw) == [sw EXCEPT !.pc = "idle"]
SweepAfterFailure(sw) == [sw EXCEPT !.idx = @ + 1, !.pc = "check"]

(* The catch: updateAgent(agent.id, {websub_status: "error"}), failed++.   *)
SweepMarkError ==
  /\ websub.sweep.pc = "caught"
  /\ LET i == websub.sweep.idx IN
       websub' = [websub EXCEPT
                    !.agents[i].websub_status = "error",
                    !.sweep = SweepAfterFailure([@ EXCEPT !.failed = @ \cup {i}])]
  /\ UNCHANGED queueVars

(* An hour passes; the cron run of an hour happens within it.              *)
Tick ==
  /\ websub.now < MaxHours
  /\ websub.sweep.pc = "idle"
  /\ ~CronDue
  /\ websub' = [websub EXCEPT !.now = @ + 1]
  /\ UNCHANGED queueVars

(* The rows a sweep can find: paused or active, never subscribed, or with  *)
(* an expiry that is due, at the edge of the lookahead, or beyond it.      *)
KnownAgents ==
  {[status |-> st, websub_expires_at |-> e, websub_status |-> ws] :
     st \in {"active", "paused"},
     e \in {NoTime, 0, RenewalWindowHours, RenewalWindowHours + 1},
     ws \in {"subscribed", "error"}}

LeaseOf(agent) ==
  IF agent.websub_expires_at = NoTime THEN NoLease
  ELSE [leaseEnd |-> agent.websub_expires_at + BufferHours,
        firstEnd |-> agent.websub_expires_at + BufferHours]

InitRenewal ==
  /\ videos = [k \in Keys |-> <<>>]
  /\ episodes = [k \in Keys |-> <<>>]
  /\ jobs = [id \in JobIds |-> NoJob]
  /\ nextAutoId = 1
  /\ progLog = [id \in JobIds |-> NoLog]
  /\ call = [c \in Callers |-> IdleCall]
  /\ worker = [w \in Workers |-> IdleWorker]
  /\ backfill = [j \in BackfillIds |-> NoBackfill]
  /\ scan = [w \in Workers |-> IdleScan]
  /\ cancel = [x \in Cancellers |-> IdleCancel]
  /\ client = [s \in Clients |-> IdleClient]
  /\ \E rows \in [AgentIds -> KnownAgents] :
        websub = [NoWebsub EXCEPT !.agents = rows,
                                  !.hub = [i \in AgentIds |-> LeaseOf(rows[i])]]

(* One run of the sweep over a table of agents, the hub and the database   *)
(* free to fail.                                                           *)
NextRenewal ==
  \/ SweepStart
  \/ SweepCheck
  \/ \E ok \in BOOLEAN : SweepSubscribe(ok)
  \/ \E ok \in BOOLEAN : SweepUpdate(ok)
  \/ SweepMarkError

SpecRenewal == InitRenewal /\ [][NextRenewal]_vars

(* The life of one agent's subscription under the clock and the cron, the  *)
(* hub accepting every renewal.                                            *)
NextLease ==
  \/ \E ok \in BOOLEAN : createAgent(1, ok)
  \/ SweepStart
  \/ SweepCheck
  \/ SweepSubscribe(TRUE)
  \/ SweepUpdate(TRUE)
  \/ Tick

InitLease ==
  /\ videos = [k \in Keys |-> <<>>]
  /\ episodes = [k \in Keys |-> <<>>]
  /\ jobs = [id \in JobIds |-> NoJob]
  /\ nextAutoId = 1
  /\ progLog = [id \in JobIds |-> NoLog]
  /\ call = [c \in Callers |-> IdleCall]
  /\ worker = [w \in Workers |-> IdleWorker]
  /\ backfill = [j \in BackfillIds |-> NoBackfill]
  /\ scan = [w \in Workers |-> IdleScan]
  /\ cancel = [x \in Cancellers |-> IdleCancel]
  /\ client = [s \in Clients |-> IdleClient]
  /\ websub = NoWebsub

SpecLease == InitLease /\ [][NextLease]_vars

(***************************************************************************)
(* C19: when one run of the renewal sweep has ended, a re-subscription was *)
(* attempted for exactly the active agents of its listing whose            *)
(* websub_expires_at lies within the next 24 hours; each one that          *)
(* succeeded has its expiry recomputed from the time of the run and is     *)
(* subscribed, each one that failed is marked error, and a failure did not *)
(* keep the later ones from being attempted.                               *)
(***************************************************************************)
Due(list, start) ==
  {i \in AgentIds : /\ list[i].status = "active"
                    /\ list[i].websub_expires_at # NoTime
                    /\ list[i].websub_expires_at <= start + RenewalWindowHours}

SweepFinished == websub.sweep.pc = "idle" /\ websub.sweep.startedAt # NoTime

updateAgent(i, status, ok) ==
  /\ websub.agents[i].status # "none"
  /\ LET existing == websub.agents[i]
         updated == [websub EXCEPT !.agents[i].status = status]
     IN  websub' =
           IF status = "paused" /\ existing.status = "active"
             THEN IF ok
                    THEN [updated EXCEPT !.agents[i].websub_status = "expired",
                                         !.hub[i] = Released(@),
                                         !.rejected = HubAnswered(@, i, TRUE)]
                    ELSE [updated EXCEPT !.rejected = HubAnswered(@, i, FALSE)]
           ELSE IF status = "active" /\ existing.status = "paused"
             THEN IF ok
                    THEN [updated EXCEPT
                            !.agents[i].websub_expires_at = ExpiresAt(websub.now),
                            !.agents[i].websub_status = "subscribed",
                            !.hub[i] = Granted(@, websub.now),
                            !.rejected = HubAnswered(@, i, TRUE)]
                    ELSE [updated EXCEPT !.rejected = HubAnswered(@, i, FALSE)]
           ELSE updated
  /\ UNCHANGED queueVars

(* activateAgent: subscribe, store the expiry and make the agent active;   *)
(* the catch marks the subscription error and throws.                      *)
activateAgent(i, ok) ==
  /\ websub.agents[i].status # "none"
  /\ websub' =
       IF ok
         THEN [websub EXCEPT
                 !.agents[i] = [status |-> "active",
                                websub_expires_at |-> ExpiresAt(websub.now),
                                websub_status |-> "subscribed"],
                 !.hub[i] = Granted(@, websub.now),
                 !.rejected = HubAnswered(@, i, TRUE)]
         ELSE [websub EXCEPT !.agents[i].websub_status = "error",
                             !.rejected = HubAnswered(@, i, FALSE)]
  /\ UNCHANGED queueVars

(* An agent subscribed long enough ago for its stored expiry to be now.    *)
DueAgent == [status |-> "active", websub_expires_at |-> 0, websub_status |-> "subscribed"]

InitAgents ==
  /\ videos = [k \in Keys |-> <<>>]
  /\ episodes = [k \in Keys |-> <<>>]
  /\ jobs = [id \in JobIds |-> NoJob]
  /\ nextAutoId = 1
  /\ progLog = [id \in JobIds |-> NoLog]
  /\ call = [c \in Callers |-> IdleCall]
  /\ worker = [w \in Workers |-> IdleWorker]
  /\ backfill = [j \in BackfillIds |-> NoBackfill]
  /\ scan = [w \in Workers |-> IdleScan]
  /\ cancel = [x \in Cancellers |-> IdleCancel]
  /\ client = [s \in Clients |-> IdleClient]
  /\ \E rows \in [AgentIds -> {NoAgent, DueAgent}] :
        websub = [NoWebsub EXCEPT !.agents = rows,
                                  !.hub = [i \in AgentIds |-> LeaseOf(rows[i])]]

(* The subscription of one agent under creation, pause, resume and         *)
(* activation, and one renewal sweep over the table, the hub free to       *)
(* refuse any request.                                                     *)
NextAgents ==
  \/ \E ok \in BOOLEAN : createAgent(1, ok)
  \/ \E status \in {"active", "paused"} : \E ok \in BOOLEAN : updateAgent(1, status, ok)
  \/ \E ok \in BOOLEAN : activateAgent(1, ok)
  \/ SweepStart
  \/ SweepCheck
  \/ \E ok \in BOOLEAN : SweepSubscribe(ok)
  \/ \E ok \in BOOLEAN : SweepUpdate(ok)
  \/ SweepMarkError

SpecAgents == InitAgents /\ [][NextAgents]_vars

(***************************************************************************)
(* C21: an agent whose latest subscribe or unsubscribe request was         *)
(* answered non-2xx by the hub (at creation, activation, pause, resume or  *)
(* renewal) has websub_status error once the handler that made the request *)
(* has run its catch.                                                      *)
(***************************************************************************)
InCatch(i) == websub.sweep.pc = "caught" /\ websub.sweep.idx = i

C21_HubFailureSurfaced ==
  \A i \in websub.rejected : ~InCatch(i) => websub.agents[i].websub_status = "error"

(***************************************************************************)
(* The streams and what ends them.                                         *)
(***************************************************************************)

(* The ProgressUpdate messages a job's channel can carry: an ordinary      *)
(* update, the pipeline's last one, and updates whose status is a terminal *)
(* word.                                                                   *)
Updates ==
  {[progress |-> 50, status |-> StageLabel], [progress |-> 100, status |-> StageLabel]}
    \cup {[progress |-> 50, status |-> st] : st \in {"failed", "cancelled"}}

(* redis.publish(`job:progress:${jobId}`, JSON.stringify(update)): every   *)
(* connection subscribed to the channel gets the message.                  *)
PublishUpdate_OneSubscriber(ch, update) ==
  /\ RoomFor(ch, 1)
  /\ LET subs == {s \in Clients : client[s].ch = ch /\ client[s].pc = "listening"}
         first == IF subs = {} THEN {} ELSE {CHOOSE s \in subs : \A t \in subs : s[2] <= t[2]}
     IN  client' = [s \in Clients |->
                      IF s \in first
                      THEN ReceiveUpdate(client[s], update.progress, update.status)
                      ELSE client[s]]
  /\ UNCHANGED <<videos, episodes, jobs, nextAutoId, progLog, call, worker, bfVars, websub>>

PublishUpdate(ch, update) ==
  /\ RoomFor(ch, 1)
  /\ client' = [s \in Clients |->
                  IF client[s].ch = ch
                  THEN ReceiveUpdate(client[s], update.progress, update.status)
                  ELSE client[s]]
  /\ UNCHANGED <<videos, episodes, jobs, nextAutoId, progLog, call, worker, bfVars, websub>>

(* The consumer of a job stream goes away.  streamProgress registers its   *)
(* "close" listener after streamJobProgress has returned, and the listener *)
(* only logs: the for-await loop and its subscription go on.               *)
StreamClose(s) ==
  /\ client[s].kind = "job"
  /\ client[s].pc \in {"subscribe", "listening"}
  /\ ~client[s].closed
  /\ client' = [client EXCEPT ![s].closed = TRUE]
  /\ UNCHANGED <<videos, episodes, jobs, nextAutoId, progLog, call, worker, bfVars, websub>>

(* SpecStreamEnd: two SSE connections, each on a job's progress stream or  *)
(* on the agent's backfill stream, the messages published on the two       *)
(* channels, and the consumers going away.                                 *)
NextStreamEnd ==
  \/ \E s \in Clients, k \in DedupKeys :
        StreamConnect(s, "job", ProgressChannel(JobIdOf(k[1], k[2])))
  \/ \E s \in Clients, a \in Agents : StreamConnect(s, "backfill", BackfillChannel(a))
  \/ \E s \in Clients : StreamSnapshot(s)
  \/ \E s \in Clients : StreamSubscribe(s)
  \/ \E s \in Clients : StreamDeliver(s)
  \/ \E s \in Clients : StreamAbort(s)
  \/ \E s \in Clients : StreamClose(s)
  \/ \E k \in DedupKeys, update \in Updates :
        PublishUpdate(ProgressChannel(JobIdOf(k[1], k[2])), update)
  \/ \E j \in BackfillIds, a \in Agents : createJob(j, a)

SpecStreamEnd == InitStream /\ [][NextStreamEnd]_vars

(***************************************************************************)
(* C22: a job progress stream that takes an event with progress 100 or     *)
(* with status completed, failed or cancelled ends with that event         *)
(* (closing event, response closed, subscription released); an event that  *)
(* is neither does not end it, and a subscribed stream ends in no other    *)
(* step.                                                                   *)
(***************************************************************************)
TerminalEvent(ev) ==
  ev.value >= 100 \/ ev.status \in {"completed", "failed", "cancelled"}

Observes(s) ==
  /\ client[s].kind = "job"
  /\ client[s].pc = "listening"
  /\ client'[s].nRecv = client[s].nRecv + 1

C23_DisconnectReleasesSubscription ==
  \A s \in Clients : client[s].closed => client[s].pc # "listening"

(***************************************************************************)
(* C24: of two connections subscribed to the same channel, each is handed  *)
(* every message published on it, the same message in the same step; what  *)
(* one connection takes from its queue, its ending or its disconnect       *)
(* leaves the other connection as it was; and each subscribed connection   *)
(* has written or still queues everything handed to it, in order.          *)
(***************************************************************************)
Subscribed(s, t) ==
  /\ s # t
  /\ client[s].pc = "listening"
  /\ client[t].pc = "listening"
  /\ client[s].ch = client[t].ch

Moves(t) ==
  \/ client'[t].nRecv # client[t].nRecv
  \/ client'[t].pc # client[t].pc
  \/ client'[t].closed # client[t].closed

RequestAgents == Agents \cup {"a2"}

(* cancelJob(jobId, agentId) throwing at one of its three tests.           *)
CancelRefused(x, j, agentId) ==
  /\ cancel[x].pc = "idle"
  /\ CancelRefusal(j, agentId) # "none"
  /\ cancel' = [cancel EXCEPT ![x] = [IdleCancel EXCEPT !.bf = j, !.agentId = agentId,
                                                        !.refused = CancelRefusal(j, agentId)]]
  /\ UNCHANGED <<videos, episodes, jobs, nextAutoId, progLog, call, worker, backfill, scan,
                 client, websub>>

(* SpecCancel: one backfill request, the scan it starts on an empty queue, *)
(* and cancel requests for it at any moment, by its agent or by another.   *)
NextCancel ==
  \/ \E j \in BackfillIds, a \in Agents : createJob(j, a)
  \/ \E j \in BackfillIds, ok \in BOOLEAN : enqueueBackfillJob(j, ok)
  \/ \E w \in Workers : ScanOnEmptyQueue(w)
  \/ \E w \in Workers, id \in JobIds : WorkerTake(w, id)
  \/ \E x \in Cancellers : CancelStep(x)
  \/ \E x \in Cancellers, j \in BackfillIds, a \in RequestAgents : CancelRefused(x, j, a)

SpecCancel == Init /\ [][NextCancel]_vars

(***************************************************************************)
(* C25: cancelJob goes past its tests only for a BackfillJob that exists,  *)
(* belongs to the agent of the request and is pending or processing; only  *)
(* a call that went past them writes the BackfillJob or removes a job from *)
(* the queue; every other call ends with an error and leaves the           *)
(* BackfillJob record and the queue as they were.                          *)
(***************************************************************************)
Cancellable(j, agentId) ==
  /\ backfill[j].status \in {"pending", "processing"}
  /\ backfill[j].agentId = agentId

C25_CancelOnlyWhenCancellable ==
  [][\A x \in Cancellers :
       /\ (cancel[x].pc = "idle" /\ cancel'[x].pc = "getJobs")
            => Cancellable(cancel'[x].bf, cancel'[x].agentId)
       /\ (cancel[x].pc = "idle" /\ cancel'[x] # cancel[x] /\ cancel'[x].pc = "idle")
            => /\ ~Cancellable(cancel'[x].bf, cancel'[x].agentId)
               /\ cancel'[x].refused # "none"
               /\ backfill' = backfill
               /\ jobs' = jobs
       /\ (cancel'[x] # cancel[x] /\ (backfill' # backfill \/ jobs' # jobs))
            => cancel[x].pc = "remove"]_vars

(* A cancel request for a completed BackfillJob was refused.               *)
C25_Witness ==
  \E x \in Cancellers :
    /\ cancel[x].refused = "Cannot cancel job with status"
    /\ backfill[cancel[x].bf].status = "completed"

(***************************************************************************)
(* C26: a process_video job counts at most 5 attempts and is taken by a    *)
(* worker only while it has counted fewer; after its n-th failed attempt,  *)
(* n < 5, it waits 10 s * 2^(n-1), twice the wait before; after the fifth  *)
(* it is failed, the Video is failed with an error message, and the job's  *)
(* record only stays, is reclaimed, or is replaced by a new enqueue.       *)
(***************************************************************************)
Exhausted(id) ==
  /\ jobs[id].name = "process_video"
  /\ jobs[id].state = "failed"
  /\ jobs[id].attemptsMade = MaxAttempts

C27_PublishedFollowsDecision ==
  [][\A id \in Keys :
       (jobs[id].state = "active" /\ jobs'[id].state = "completed")
         => /\ Len(episodes'[JobKey(id)]) = 1
            /\ episodes'[JobKey(id)][1].published = episodes'[JobKey(id)][1].asked]_vars

(***************************************************************************)
(* backfillAgent refused.                                                  *)
(***************************************************************************)
(* createJob throwing at one of its tests: backfillAgent hands the error   *)
(* to next() and neither inserts a row nor calls enqueueBackfillJob.  The  *)
(* slot keeps the agent of the refused request.                            *)
createJobRefused(j, agentId) ==
  /\ backfill[j].status = "none"
  /\ CreateRefusal(agentId) # "none"
  /\ backfill' = [backfill EXCEPT ![j] = [NoBackfill EXCEPT !.agentId = agentId,
                                                            !.req = "refused"]]
  /\ UNCHANGED <<videos, episodes, jobs, nextAutoId, progLog, call, worker, scan, cancel,
                 client, websub>>

(* SpecBackfillStart: backfill requests for the agent "a1", which is       *)
(* paused and resumed meanwhile, and for agents that do not exist.         *)
NextBackfillStart ==
  \/ \E j \in BackfillIds, a \in RequestAgents \cup {"a3"} : createJob(j, a)
  \/ \E j \in BackfillIds, a \in RequestAgents \cup {"a3"} : createJobRefused(j, a)
  \/ \E j \in BackfillIds, ok \in BOOLEAN : enqueueBackfillJob(j, ok)
  \/ \E status \in {"active", "paused"} : \E ok \in BOOLEAN : updateAgent(1, status, ok)
  \/ \E ok \in BOOLEAN : activateAgent(1, ok)
  \/ \E x \in Cancellers : CancelStep(x)

SpecBackfillStart == Init /\ [][NextBackfillStart]_vars

(***************************************************************************)
(* C28: a BackfillJob record is created, and a backfill-scan job added,    *)
(* only for an agent that exists and is active at the request; a request   *)
(* for any other agent is refused, creates no record and adds no job.      *)
(***************************************************************************)
C28_BackfillOnlyForActiveAgent ==
  [][\A j \in BackfillIds :
       /\ (backfill[j].status = "none" /\ backfill'[j].status # "none")
            => findAgentById(backfill'[j].agentId).status = "active"
       /\ (backfill[j].req # "refused" /\ backfill'[j].req = "refused")
            => /\ findAgentById(backfill'[j].agentId).status # "active"
               /\ backfill'[j].status = "none"
               /\ jobs' = jobs
       /\ (backfill[j].status = "none" /\ backfill'[j] # backfill[j]
             /\ findAgentById(backfill'[j].agentId).status # "active")
            => backfill'[j].req = "refused"
       /\ \A id \in JobIds :
            (jobs[id].name # "backfill-scan" /\ jobs'[id].name = "backfill-scan")
              => /\ backfill[jobs'[id].bfId].req = "created"
                 /\ backfill[jobs'[id].bfId].status # "none"]_vars

(* A backfill request for the paused agent was refused.                    *)
C28_Witness ==
  \E j \in BackfillIds :
    /\ backfill[j].req = "refused"
    /\ backfill[j].status = "none"
    /\ findAgentById(backfill[j].agentId).status = "paused"

NextRepeat ==
  \/ NotifyStep(<<"n", 1>>, DedupKeys)
  \/ \E j \in BackfillIds, a \in Agents : createJob(j, a)
  \/ \E j \in BackfillIds, ok \in BOOLEAN : enqueueBackfillJob(j, ok)
  \/ \E w \in Workers : ScanStep(w)
  \/ \E w \in Workers, id \in JobIds : WorkerTake(w, id)
  \/ \E w \in Workers : HandleVideoJob(w, 0, "ECONNRESET", TRUE, FALSE)
  \/ \E id \in JobIds : ReclaimFinished(id)

SpecRepeat == Init /\ [][NextRepeat]_vars

(***************************************************************************)
(* C30: no step adds a process_video job for a video that has an Episode,  *)
(* whether the enqueue comes from a notification or from a backfill scan.  *)
(***************************************************************************)
C30_ProcessedNeverEnqueuedAgain ==
  [][\A k \in Keys :
       (jobs[k].state = "none" /\ jobs'[k].name = "process_video")
         => episodes[k] = <<>>]_vars

(***************************************************************************)
(* C31: at the step in which cancelJob returns successfully, no            *)
(* backfill-scan job of the BackfillJob and no process_video job that its  *)
(* scan added is waiting or delayed; and a job that cancelJob removes is   *)
(* one of those.                                                           *)
(***************************************************************************)
OfBackfill(job, j) ==
  /\ job.name \in {"backfill-scan", "process_video"}
  /\ job.bfId = j

C31_CancelClearsQueue ==
  [][\A x \in Cancellers :
       /\ (cancel[x].pc = "remove" /\ cancel[x].targets = {} /\ cancel'[x].pc = "idle")
            => \A id \in JobIds :
                 OfBackfill(jobs'[id], cancel[x].bf)
                   => jobs'[id].state \notin {"waiting", "delayed"}
       /\ (cancel[x].pc = "remove" /\ cancel'[x] # cancel[x])
            => \A id \in JobIds :
                 jobs'[id] # jobs[id] => OfBackfill(jobs[id], cancel[x].bf)]_vars

(***************************************************************************)
(* SpecStages: the runs of one video's job, stage by stage; the work of    *)
(* any stage can throw, the boundaries that the analysis returned can be   *)
(* invalid, and a failed attempt is retried after its delay.               *)
(***************************************************************************)
(* The stages by the place of their progress report: download, analysis    *)
(* (with the validation of its boundaries), extraction, assembly, upload,  *)
(* episode record, complete.                                               *)
AnalysisStage == 2
UploadStage == 5

BoundaryError == "Invalid sermon boundaries: start=10s, end=5s, total=60s"

NextStages ==
  \/ NotifyStep(<<"n", 1>>, DedupKeys)
  \/ \E w \in Workers, id \in JobIds : WorkerTake(w, id)
  \/ \E w \in Workers : FindVideo(w)
  \/ \E w \in Workers : StageStore(w)
  \/ \E w \in Workers : StagePublish(w)
  \/ \E w \in Workers, outcome \in StageOutcomes, raw \in RawErrors, publish \in BOOLEAN :
        StageWork(w, outcome, raw, publish)
  \/ \E w \in Workers :
        worker[w].stage = AnalysisStage /\ StageWork(w, "throw", BoundaryError, TRUE)
  \/ \E id \in JobIds : PromoteDelayed(id)

SpecStages == Init /\ [][NextStages]_vars

(***************************************************************************)
(* C32: within a run the stages are worked strictly in order: a worker     *)
(* moves to a stage only from the finished work of the one before it (or   *)
(* from the start, to the download); within a stage it reports and then    *)
(* works; a step in which the attempt fails ends the run; the upload is    *)
(* worked only at its stage and an Episode is inserted only by the work of *)
(* the episode stage.  So a run that failed at the download, the analysis  *)
(* or the validation has uploaded nothing and created no Episode.          *)
(***************************************************************************)
Running(w) == worker[w].pc \in {"store", "publish", "work"}

C32_StagesInOrder ==
  [][\A w \in Workers :
       LET st == worker[w].stage
           id == worker[w].job
       IN  /\ worker'[w].stage # st =>
                \/ worker[w].pc = "video" /\ worker'[w].pc = "store" /\ worker'[w].stage = 1
                \/ /\ worker[w].pc = "work" /\ worker'[w].pc = "store"
                   /\ worker'[w].stage = st + 1
                \/ worker'[w] = IdleWorker
           /\ (Running(w) /\ worker'[w].stage = st /\ worker'[w].pc # worker[w].pc) =>
                \/ worker[w].pc = "store" /\ worker'[w].pc = "publish"
                \/ worker[w].pc = "publish" /\ worker'[w].pc = "work"
           /\ (Running(w) /\ jobs'[id].attemptsMade # jobs[id].attemptsMade) =>
                /\ worker'[w] = IdleWorker
                /\ st < UploadStage => episodes' = episodes
           /\ \A k \in Keys :
                episodes'[k] # episodes[k] =>
                  \E v \in Workers : /\ worker[v].pc = "work"
                                     /\ worker[v].stage = EpisodeStage
                                     /\ JobKey(worker[v].job) = k]_vars

(* The first run of a job failed at the analysis or at the validation of   *)
(* its boundaries: the video is failed, the job waits for its retry, and   *)
(* the video has no Episode.                                               *)
C32_Witness ==
  \E k \in Keys :
    /\ jobs[k].state = "delayed"
    /\ jobs[k].attemptsMade = 1
    /\ jobs[k].progress = StageProgress[AnalysisStage]
    /\ videos[k] # <<>> /\ videos[k][1].status = "failed"
    /\ episodes[k] = <<>>

(***************************************************************************)
(* The subscribeToProgress generator that buffers in messageQueue and      *)
(* hands over through resolveNext.  Of a connection's record it uses       *)
(* buffer (messageQueue), done (isDone), nSent (messages arrived), nRecv   *)
(* (updates yielded) and inOrder; pc is "genLoop" while the generator is   *)
(* about to run its loop or is suspended at a yield, and "genWait" while   *)
(* it awaits the promise, which is when resolveNext is set.                *)
(***************************************************************************)
GenSubscribe(s, ch) ==
  /\ client[s].pc = "idle"
  /\ client' = [client EXCEPT ![s] = [IdleClient EXCEPT !.pc = "genLoop", !.kind = "generator",
                                                        !.ch = ch]]
  /\ UNCHANGED <<videos, episodes, jobs, nextAutoId, progLog, call, worker, bfVars, websub>>

(* The test of the "message" listener that sets isDone.                    *)
GenCompletes(update) ==
  update.progress >= 100 \/ update.status = "completed" \/ update.status = "failed"

(* What the listener does with a message while resolveNext is set: it      *)
(* resolves the promise with the update; the loop awaits that promise      *)
(* without using its value.                                                *)
HandOver_Queued(buf, ev) == Append(buf, ev)
HandOver(buf, ev) == buf

(* subscriber.on("message"): hand the update to the waiting generator, or  *)
(* push it on messageQueue; then set isDone on the completing update.      *)
GenMessage(s, update) ==
  /\ client[s].pc \in {"genLoop", "genWait"}
  /\ ~client[s].done
  /\ client[s].nSent < MaxEvents
  /\ LET ev == [value |-> update.progress, status |-> update.status,
                n |-> client[s].nSent + 1, dup |-> FALSE]
     IN  client' = [client EXCEPT
                      ![s].buffer = IF client[s].pc = "genWait"
                                    THEN HandOver(@, ev)
                                    ELSE Append(@, ev),
                      ![s].pc = "genLoop",
                      ![s].nSent = @ + 1,
                      ![s].done = GenCompletes(update)]
  /\ UNCHANGED <<videos, episodes, jobs, nextAutoId, progLog, call, worker, bfVars, websub>>

(* One turn of the while loop: yield the head of messageQueue; or leave    *)
(* the loop when isDone (the finally block unsubscribes); or set           *)
(* resolveNext and wait.                                                   *)
GenTurn(s) ==
  /\ client[s].pc = "genLoop"
  /\ client' = [client EXCEPT ![s] =
                  IF client[s].buffer # <<>>
                  THEN [@ EXCEPT !.buffer = Tail(@),
                                 !.nRecv = @ + 1,
                                 !.inOrder = @ /\ Head(client[s].buffer).n = client[s].nRecv + 1]
                  ELSE IF client[s].done THEN [@ EXCEPT !.pc = "ended"]
                  ELSE [@ EXCEPT !.pc = "genWait"]]
  /\ UNCHANGED <<videos, episodes, jobs, nextAutoId, progLog, call, worker, bfVars, websub>>

NextGenerator ==
  \/ \E s \in Clients, k \in DedupKeys : GenSubscribe(s, ProgressChannel(JobIdOf(k[1], k[2])))
  \/ \E s \in Clients, update \in Updates : GenMessage(s, update)
  \/ \E s \in Clients : GenTurn(s)

SpecGenerator == Init /\ [][NextGenerator]_vars

(***************************************************************************)
(* C33: the generator yields every message that arrived on its channel     *)
(* once and in arrival order: the updates yielded so far and the ones in   *)
(* messageQueue are exactly the messages that arrived, and a generator     *)
(* that has ended has yielded all of them, the completing one included.    *)
(***************************************************************************)
C33_GeneratorYieldsAll ==
  \A s \in Clients :
    client[s].kind = "generator" =>
      /\ client[s].inOrder
      /\ client[s].nRecv + Len(client[s].buffer) = client[s].nSent
      /\ client[s].pc = "ended" => client[s].nRecv = client[s].nSent

(***************************************************************************)
(* C34: at the step in which enqueueProcessVideo returns enqueued=true,    *)
(* the job of the call's key is in the queue, waiting or delayed, or a     *)
(* worker has already taken it for an attempt (active).                    *)
(***************************************************************************)
ReturnsTrue(c) ==
  /\ call[c].pc \in {"getJob", "getState", "remove", "add"}
  /\ call'[c].pc = "enqRet"
  /\ call'[c].result = "true"

C34_AcceptedMeansRunnable ==
  [][\A c \in Callers :
       ReturnsTrue(c) => jobs'[CallJobId(c)].state \in {"waiting", "delayed", "active"}]_vars

(***************************************************************************)
(* C35: of the enqueueProcessVideo calls for a key that found no job,      *)
(* only the one whose add creates the job returns enqueued=true: a call    *)
(* that found no job and returns true finds none at its add either, it is  *)
(* the only call returning true on that job, and the key has one job.      *)
(***************************************************************************)
C35_OneOfTwoAccepted ==
  [][\A c \in Notifiers :
       (ReturnsTrue(c) /\ call[c].st = "none") =>
         /\ jobs[CallJobId(c)].state = "none"
         /\ Cardinality(InFlightJobs(call[c].key)') = 1
         /\ \A d \in Notifiers \ {c} :
              ~(/\ call[d].pc = "enqRet" /\ call[d].key = call[c].key
                /\ call[d].st = "none" /\ call[d].result = "true"
                /\ jobs[CallJobId(c)].attemptsMade = 0
                /\ jobs[CallJobId(c)].state = "waiting")]_vars

(***************************************************************************)
(* C36: at the step in which a process_video job completes, the row of its *)
(* Video has status processed and no error_message.                        *)
(***************************************************************************)
C36_ProcessedAfterSuccess ==
  [][\A id \in Keys :
       (jobs[id].state = "active" /\ jobs'[id].state = "completed") =>
         /\ videos'[id] # <<>>
         /\ videos'[id][1].status = "processed"
         /\ videos'[id][1].error = "none"]_vars

(***************************************************************************)
(* C37: the status of a BackfillJob only moves forward, from pending to    *)
(* processing to completed or failed, and a row that is completed or       *)
(* failed keeps its status and its error.                                  *)
(***************************************************************************)
StatusRank(status) ==
  IF status = "none" THEN 0
  ELSE IF status = "pending" THEN 1
  ELSE IF status = "processing" THEN 2
  ELSE 3

C37_StatusMovesForward ==
  [][\A j \in BackfillIds :
       /\ StatusRank(backfill'[j].status) >= StatusRank(backfill[j].status)
       /\ backfill[j].status \in {"completed", "failed"} =>
            /\ backfill'[j].status = backfill[j].status
            /\ backfill'[j].error = backfill[j].error]_vars

(***************************************************************************)
(* SpecBackfillLive: one backfill request and its scan, with nobody        *)
(* cancelling and no worker dying.  Fairness: the request handler goes on  *)
(* from createJob to enqueueBackfillJob, an idle worker takes a job that   *)
(* is ready, and a worker that runs a scan takes its next step.            *)
(***************************************************************************)
RequestStep ==
  \/ \E j \in BackfillIds, a \in Agents : createJob(j, a)
  \/ \E j \in BackfillIds, ok \in BOOLEAN : enqueueBackfillJob(j, ok)

WorkerStep ==
  \/ \E w \in Workers : ScanOnEmptyQueue(w)
  \/ \E w \in Workers, id \in JobIds : WorkerTake(w, id)

NextBackfillLive == RequestStep \/ WorkerStep

SpecBackfillLive ==
  Init /\ [][NextBackfillLive]_vars /\ WF_vars(RequestStep) /\ WF_vars(WorkerStep)

(***************************************************************************)
(* C38: every BackfillJob that was created (pending) eventually has the    *)
(* status completed or failed.                                             *)
(***************************************************************************)
C38_EventuallyTerminal ==
  \A j \in BackfillIds :
    (backfill[j].status = "pending") ~> (backfill[j].status \in {"completed", "failed"})

(***************************************************************************)
(* SpecStreamLive: the job of one video is run stage by stage, any stage   *)
(* can throw, failed attempts are retried until they are used up, and a    *)
(* job stream is connected at any moment.  Fairness: the worker takes the  *)
(* job when it is ready and goes on with the run it has begun, the broker  *)
(* promotes a delayed job, and a connection goes on with its snapshot, its *)
(* subscription and the delivery of what is queued for it.                 *)
(***************************************************************************)
RunStep ==
  \/ \E w \in Workers, id \in JobIds : WorkerTake(w, id)
  \/ \E w \in Workers : FindVideo(w)
  \/ \E w \in Workers : StageStore(w)
  \/ \E w \in Workers : StagePublish(w)
  \/ \E w \in Workers, outcome \in {"ok", "throw"} : StageWork(w, outcome, "ECONNRESET", TRUE)

PromoteStep == \E id \in JobIds : PromoteDelayed(id)

ForwardStep ==
  \/ \E s \in Viewers : StreamSnapshot(s)
  \/ \E s \in Viewers : StreamSubscribe(s)
  \/ \E s \in Viewers : StreamDeliver(s)

ConnectStep ==
  \E s \in Viewers, k \in DedupKeys :
    client[s].pc = "idle" /\ StreamConnect(s, "job", ProgressChannel(JobIdOf(k[1], k[2])))

NextStreamLive == RunStep \/ PromoteStep \/ ForwardStep \/ ConnectStep

SpecStreamLive ==
  /\ InitStream /\ [][NextStreamLive]_vars
  /\ WF_vars(RunStep) /\ WF_vars(PromoteStep) /\ WF_vars(ForwardStep)

(***************************************************************************)
(* C39: a job stream that is subscribed to a job whose last attempt has    *)
(* failed eventually ends.                                                 *)
(***************************************************************************)
C39_StreamEndsAfterFailure ==
  \A s \in Viewers :
    (/\ client[s].pc = "listening"
     /\ jobs[client[s].ch].state = "failed")
      ~> (client[s].pc = "ended")

(***************************************************************************)
(* C40: at the step in which a BackfillJob becomes completed, its          *)
(* processedVideos plus the number of its failedVideos entries equals its  *)
(* totalVideos.                                                            *)
(***************************************************************************)
C40_EveryVideoCountedOnce ==
  [][\A j \in BackfillIds :
       (backfill[j].status # "completed" /\ backfill'[j].status = "completed") =>
         backfill'[j].processed + Len(backfill'[j].reportedFailed) = backfill'[j].total]_vars

====
